---- MODULE Spec2Model ----
(***************************************************************************)
(* Token Transformation Engine of luckinoapp: alias resolution             *)
(* (lib/aliasUtils), the import pipeline and its format detector           *)
(* (js-old/core), the multi-file export engine, the token store and the    *)
(* W3C export builder.  Each part is a state machine over its own          *)
(* variables; a specification of one part keeps the other parts idle.      *)
(***************************************************************************)
EXTENDS Integers, Sequences, FiniteSets, TLC

VARIABLES
    tokens,       \* alias utilities: the Token[] handed to the calls
    lastIndex,    \* ALIAS_REGEX.lastIndex (module-level /g regex)
    aliasCall,    \* the last exported call made and its arguments
    aliasOut,     \* what that call returned
    detDoc,       \* format detector: the parsed document handed to detectFormat
    detOut,       \* what detectFormat returned for it
    tokenProcessor, \* import pipeline: the orchestrator has a token processor
    metricsHeap,  \* the metrics objects made so far, by reference
    thisMetrics,  \* the reference this.metrics holds
    execs,        \* the calls of execute: position, context, result
    faultsLeft,   \* the collaborator calls that may still throw
    overlap,      \* the callers start a call while another is in flight
    exportRun,    \* export engine: the call of export, its position and result
    store,        \* token store: the state of the zustand store
    storeLast,    \* the action taken last and the document the tokens came from
    exports,      \* the calls of exportForFigma: position, tokens read, config
    resolution,   \* FigmaExportEngine.resolveAliases: its context and its position
    call,         \* functions without state: the function called and its arguments
    returned      \* what the call returned

aliasVars == <<tokens, lastIndex, aliasCall, aliasOut>>
detectVars == <<detDoc, detOut>>

pipeVars == <<tokenProcessor, metricsHeap, thisMetrics, execs, faultsLeft, overlap>>

exportVars == <<exportRun>>

storeVars == <<store, storeLast, exports>>

callVars == <<call, returned>>

resolveVars == <<resolution>>

vars == <<aliasVars, detectVars, pipeVars, exportVars, storeVars, callVars, resolveVars>>

\* the parts a specification of one part leaves idle
notAliasVars == <<detectVars, pipeVars, exportVars, storeVars, callVars, resolveVars>>
notDetectVars == <<aliasVars, pipeVars, exportVars, storeVars, callVars, resolveVars>>
notPipeVars == <<aliasVars, detectVars, exportVars, storeVars, callVars, resolveVars>>
notExportVars == <<aliasVars, detectVars, pipeVars, storeVars, callVars, resolveVars>>
notStoreVars == <<aliasVars, detectVars, pipeVars, exportVars, callVars, resolveVars>>
notCallVars == <<aliasVars, detectVars, pipeVars, exportVars, storeVars, resolveVars>>
notResolveVars == <<aliasVars, detectVars, pipeVars, exportVars, storeVars, callVars>>

(***************************************************************************)
(* Strings.  A JavaScript string is a TLA+ string; a character is a string *)
(* of length one.  Positions are 1-based here and 0-based in the source.   *)
(***************************************************************************)
Undefined == "<undefined>"

Char(s, i) == SubSeq(s, i, i)

\* s.includes(sub)
Includes(s, sub) ==
    \E i \in 1..(Len(s) - Len(sub) + 1) : SubSeq(s, i, i + Len(sub) - 1) = sub

\* position of the first occurrence of sub in s, 0 when there is none
IndexOf(s, sub) ==
    LET hits == {i \in 1..(Len(s) - Len(sub) + 1) :
                    SubSeq(s, i, i + Len(sub) - 1) = sub}
    IN  IF hits = {} THEN 0 ELSE CHOOSE i \in hits : \A j \in hits : i <= j

\* s.replace(pat, rep) with a string pattern: the first occurrence only
ReplaceFirst(s, pat, rep) ==
    LET i == IndexOf(s, pat)
    IN  IF i = 0 THEN s
        ELSE SubSeq(s, 1, i - 1) \o rep \o SubSeq(s, i + Len(pat), Len(s))

\* s.replace(/c/g, d) for one character c
RECURSIVE ReplaceAllChar(_, _, _)
ReplaceAllChar(s, c, d) ==
    IF Len(s) = 0 THEN ""
    ELSE (IF Char(s, 1) = c THEN d ELSE Char(s, 1))
         \o ReplaceAllChar(SubSeq(s, 2, Len(s)), c, d)

(***************************************************************************)
(* ALIAS_REGEX = /\{([^}]+)\}/g and its lastIndex                          *)
(***************************************************************************)
\* the first "}" after position i, 0 when there is none
FirstClose(s, i) ==
    LET js == {j \in (i + 1)..Len(s) : Char(s, j) = "}"}
    IN  IF js = {} THEN 0 ELSE CHOOSE j \in js : \A k \in js : j <= k

\* the pattern matches starting at position i
MatchAt(s, i) == Char(s, i) = "{" /\ FirstClose(s, i) > i + 1

\* ALIAS_REGEX.exec(s) started at lastIndex li: the match and the new lastIndex
RegexExec(s, li) ==
    LET starts == {i \in (li + 1)..Len(s) : MatchAt(s, i)}
    IN  IF li > Len(s) \/ starts = {}
        THEN [found |-> FALSE, original |-> "", reference |-> "", lastIndex |-> 0]
        ELSE LET i == CHOOSE i \in starts : \A k \in starts : i <= k
                 j == FirstClose(s, i)
             IN  [found |-> TRUE,
                  original |-> SubSeq(s, i, j),
                  reference |-> SubSeq(s, i + 1, j - 1),
                  lastIndex |-> j]

\* hasAlias(value): ALIAS_REGEX.test(value), which starts at and updates lastIndex
hasAlias(value, li) == RegexExec(value, li)

\* extractAliases(value): lastIndex reset to 0, then exec until null (lastIndex 0 again)
RECURSIVE ExecLoop(_, _)
ExecLoop(value, li) ==
    LET m == RegexExec(value, li)
    IN  IF ~m.found THEN <<>>
        ELSE <<[original |-> m.original, reference |-> m.reference,
                resolved |-> Undefined, isValid |-> FALSE]>>
             \o ExecLoop(value, m.lastIndex)

extractAliases(value) == ExecLoop(value, 0)

(***************************************************************************)
(* createTokenMap and the lookups.  The Map is kept as the sequence of its *)
(* writes: entry i holds the keys set for token i; a later write to a key  *)
(* replaces an earlier one, so get returns the last token written under it.*)
(***************************************************************************)
tokenKeys(t) ==
    { t.path,
      ReplaceAllChar(t.path, ".", "-"),
      ReplaceAllChar(t.path, ".", "_"),
      t.name,
      t.collection \o "." \o t.name }

RECURSIVE KeysFrom(_, _)
KeysFrom(toks, i) ==
    IF i > Len(toks) THEN <<>> ELSE <<tokenKeys(toks[i])>> \o KeysFrom(toks, i + 1)

createTokenMap(toks) == KeysFrom(toks, 1)

\* tokenMap.get(key): the position of the token, 0 stands for undefined
RECURSIVE MapGetFrom(_, _, _)
MapGetFrom(tokenMap, key, i) ==
    IF i = 0 THEN 0
    ELSE IF key \in tokenMap[i] THEN i
    ELSE MapGetFrom(tokenMap, key, i - 1)

MapGet(tokenMap, key) == MapGetFrom(tokenMap, key, Len(tokenMap))

findTokenByPath(path, tokenMap) == MapGet(tokenMap, path)

findTokenByAlternativePaths(reference, tokenMap) ==
    LET variations == << reference,
                         ReplaceAllChar(reference, "-", "."),
                         ReplaceAllChar(reference, "_", "."),
                         ReplaceAllChar(reference, ".", "-"),
                         ReplaceAllChar(reference, ".", "_") >>
        hits == {n \in 1..5 : MapGet(tokenMap, variations[n]) # 0}
    IN  IF hits = {} THEN 0
        ELSE MapGet(tokenMap, variations[CHOOSE n \in hits : \A m \in hits : n <= m])

\* the aliases.forEach of resolveAliases, from alias n on
RECURSIVE ResolveEach(_, _, _, _, _, _)
ResolveEach(aliases, n, toks, tokenMap, resolved, hasUnresolved) ==
    IF n > Len(aliases)
    THEN [resolved |-> resolved, aliases |-> aliases, hasUnresolved |-> hasUnresolved]
    ELSE LET alias == aliases[n]
             referencedToken == findTokenByPath(alias.reference, tokenMap)
             alternativeToken == findTokenByAlternativePaths(alias.reference, tokenMap)
         IN  IF referencedToken # 0
             THEN ResolveEach(
                    [aliases EXCEPT ![n] = [alias EXCEPT
                        !.resolved = toks[referencedToken].value, !.isValid = TRUE]],
                    n + 1, toks, tokenMap,
                    ReplaceFirst(resolved, alias.original, toks[referencedToken].value),
                    hasUnresolved)
             ELSE IF alternativeToken # 0
             THEN ResolveEach(
                    [aliases EXCEPT ![n] = [alias EXCEPT
                        !.resolved = toks[alternativeToken].value, !.isValid = TRUE]],
                    n + 1, toks, tokenMap,
                    ReplaceFirst(resolved, alias.original, toks[alternativeToken].value),
                    FALSE)
             ELSE ResolveEach(aliases, n + 1, toks, tokenMap, resolved, TRUE)

\* resolveAliases(value, tokens); it leaves lastIndex = 0 (through extractAliases)
resolveAliases(value, toks) ==
    ResolveEach(extractAliases(value), 1, toks, createTokenMap(toks), value, FALSE)

\* the while loop of getResolvedTokenValue; li is ALIAS_REGEX.lastIndex on entry
RECURSIVE ResolveLoop(_, _, _, _, _, _, _)
ResolveLoop(currentValue, seen, depth, resolvedAliases, toks, maxDepth, li) ==
    LET test == hasAlias(currentValue, li)
    IN  IF ~(test.found /\ depth < maxDepth)
        THEN [value |-> currentValue, isCircular |-> FALSE,
              resolvedAliases |-> resolvedAliases, lastIndex |-> test.lastIndex]
        ELSE IF currentValue \in seen
        THEN [value |-> currentValue, isCircular |-> TRUE,
              resolvedAliases |-> resolvedAliases, lastIndex |-> test.lastIndex]
        ELSE LET r == resolveAliases(currentValue, toks)
             IN  ResolveLoop(r.resolved, seen \cup {currentValue}, depth + 1,
                             resolvedAliases \o r.aliases, toks, maxDepth, 0)

getResolvedTokenValue(token, allTokens, maxDepth, li) ==
    ResolveLoop(token.value, {}, 0, <<>>, allTokens, maxDepth, li)

\* the tokens.forEach of validateTokenAliases, from token n on
RECURSIVE ValidateEach(_, _, _, _)
ValidateEach(toks, n, results, li) ==
    IF n > Len(toks) THEN [results |-> results, lastIndex |-> li]
    ELSE LET test == hasAlias(toks[n].value, li)
         IN  IF test.found
             THEN LET r == resolveAliases(toks[n].value, toks)
                  IN  ValidateEach(toks, n + 1,
                        Append(results, [token |-> n, aliases |-> r.aliases,
                                         hasUnresolved |-> r.hasUnresolved]), 0)
             ELSE ValidateEach(toks, n + 1, results, test.lastIndex)

validateTokenAliases(toks, li) == ValidateEach(toks, 1, <<>>, li)

(***************************************************************************)
(* JSON values.  A value is a record: t its kind ("obj", "str", "num",     *)
(* "null", "arr"), s the text of a scalar, e the entries <<key, value>> of *)
(* an object in insertion order (Object.keys / Object.entries order).      *)
(***************************************************************************)
JStr(s) == [t |-> "str", s |-> s, e |-> <<>>]
JNum(s) == [t |-> "num", s |-> s, e |-> <<>>]
JNull == [t |-> "null", s |-> "", e |-> <<>>]
JArr == [t |-> "arr", s |-> "", e |-> <<>>]
JObj(e) == [t |-> "obj", s |-> "", e |-> e]

\* value && typeof value === 'object' (arrays occur at the top level only)
IsObject(v) == v.t = "obj"

\* 'key' in obj, obj.key !== undefined
Has(obj, key) == \E n \in 1..Len(obj.e) : obj.e[n][1] = key

\* obj.key for a key the object has
Get(obj, key) == obj.e[CHOOSE n \in 1..Len(obj.e) : obj.e[n][1] = key][2]

\* JSON.stringify(value).length
RECURSIVE JsonLength(_)
RECURSIVE EntriesLength(_, _)
JsonLength(v) ==
    CASE v.t = "str" -> Len(v.s) + 2
      [] v.t = "num" -> Len(v.s)
      [] v.t = "null" -> 4
      [] v.t = "arr" -> 2
      [] OTHER -> 2 + EntriesLength(v.e, 1)
EntriesLength(e, n) ==
    IF n > Len(e) THEN 0
    ELSE Len(e[n][1]) + 3 + JsonLength(e[n][2])
         + (IF n < Len(e) THEN 1 ELSE 0) + EntriesLength(e, n + 1)

UpperLetters == "ABCDEFGHIJKLMNOPQRSTUVWXYZ"
LowerLetters == "abcdefghijklmnopqrstuvwxyz"

\* s.toLowerCase()
RECURSIVE ToLowerCase(_)
ToLowerCase(s) ==
    IF Len(s) = 0 THEN ""
    ELSE LET c == Char(s, 1)
             i == IndexOf(UpperLetters, c)
         IN  (IF i = 0 THEN c ELSE Char(LowerLetters, i))
             \o ToLowerCase(SubSeq(s, 2, Len(s)))

(***************************************************************************)
(* JSONFormatDetector.  A score is a fraction [num, den]: the source       *)
(* computes (count / tokenCount) * 100 in floating point, and half tokens. *)
(***************************************************************************)
Frac(num, den) == [num |-> num, den |-> den]
FracGreaterOrEqual(a, b) == a.num * b.den >= b.num * a.den
FracGreater(a, b) == a.num * b.den > b.num * a.den
\* Math.round of a non-negative fraction
MathRound(a) == (2 * a.num + a.den) \div (2 * a.den)

\* checkW3CFormat.checkRecursive: <<tokenCount, w3cTokens>> over Object.values(obj)
RECURSIVE CountW3C(_, _)
CountW3C(obj, n) ==
    IF n > Len(obj.e) THEN <<0, 0>>
    ELSE LET value == obj.e[n][2]
             rest == CountW3C(obj, n + 1)
             here == IF ~IsObject(value) THEN <<0, 0>>
                     ELSE IF Has(value, "$value")
                     THEN <<1, IF Has(value, "$type") THEN 1 ELSE 0>>
                     ELSE CountW3C(value, 1)
         IN  <<here[1] + rest[1], here[2] + rest[2]>>

checkW3CFormat(data) ==
    LET c == CountW3C(data, 1)
    IN  IF c[1] > 0 THEN Frac(c[2] * 100, c[1]) ELSE Frac(0, 1)

\* checkTokenStudioFormat.checkRecursive: <<tokenCount, 2 * tsTokens>>
RECURSIVE CountTokenStudio(_, _)
CountTokenStudio(obj, n) ==
    IF n > Len(obj.e) THEN <<0, 0>>
    ELSE LET value == obj.e[n][2]
             rest == CountTokenStudio(obj, n + 1)
             here == IF ~IsObject(value) THEN <<0, 0>>
                     ELSE IF Has(value, "value") /\ Has(value, "type") THEN <<1, 2>>
                     ELSE IF Has(value, "value") \/ Has(value, "type") THEN <<1, 1>>
                     ELSE CountTokenStudio(value, 1)
         IN  <<here[1] + rest[1], here[2] + rest[2]>>

checkTokenStudioFormat(data) ==
    LET c == CountTokenStudio(data, 1)
    IN  IF c[1] > 0 THEN Frac(c[2] * 100, 2 * c[1]) ELSE Frac(0, 1)

\* the checkRecursive shared by hasW3CTypes, hasW3CValues and hasStyleDictComments:
\* some object below obj has the key
RECURSIVE HasKeyBelow(_, _, _)
HasKeyBelow(obj, key, n) ==
    /\ n <= Len(obj.e)
    /\ \/ /\ IsObject(obj.e[n][2])
          /\ \/ Has(obj.e[n][2], key)
             \/ HasKeyBelow(obj.e[n][2], key, 1)
       \/ HasKeyBelow(obj, key, n + 1)

hasW3CTypes(data) == HasKeyBelow(data, "$type", 1)
hasW3CValues(data) == HasKeyBelow(data, "$value", 1)
hasStyleDictComments(data) == HasKeyBelow(data, "comment", 1)

\* hasTokenStudioMetadata.checkRecursive
RECURSIVE HasTypeAndValueBelow(_, _)
HasTypeAndValueBelow(obj, n) ==
    /\ n <= Len(obj.e)
    /\ \/ /\ IsObject(obj.e[n][2])
          /\ \/ (Has(obj.e[n][2], "type") /\ Has(obj.e[n][2], "value"))
             \/ HasTypeAndValueBelow(obj.e[n][2], 1)
       \/ HasTypeAndValueBelow(obj, n + 1)

hasTokenStudioMetadata(data) == HasTypeAndValueBelow(data, 1)

commonCategories == {"color", "size", "font", "spacing", "border", "shadow", "animation"}

hasStyleDictCategories(data) ==
    \E category \in commonCategories :
        \E n \in 1..Len(data.e) : Includes(ToLowerCase(data.e[n][1]), category)

BaseScore == 30

Min(x, y) == IF x < y THEN x ELSE y

checkStyleDictionaryFormat(data) ==
    LET score == BaseScore
                 + (IF hasStyleDictComments(data) THEN 30 ELSE 0)
                 + (IF hasStyleDictCategories(data) THEN 40 ELSE 0)
    IN  Frac(Min(score, 100), 1)

\* (a detector that also replaces the running best on an equal score)
BeatsOrTies(score, confidence) == FracGreaterOrEqual(score, confidence)

\* the comparison that replaces the running best: score > confidence
Beats(score, confidence) == FracGreater(score, confidence)

\* const details = {}: the properties assigned so far, as <<name, value>> pairs
NoDetails == {}

\* let detectedFormat = 'unknown', confidence = 0, details = {}
NoneDetected == [confidence |-> Frac(0, 1), format |-> "unknown", details |-> NoDetails]

\* one candidate of detectFormat: it replaces the running best when Beats says so
Candidate(best, score, format, details) ==
    IF Beats(score, best.confidence)
    THEN [confidence |-> score, format |-> format, details |-> best.details \cup details]
    ELSE best

CandidateW3C(data, best) ==
    Candidate(best, checkW3CFormat(data), "w3c-design-tokens",
              {<<"hasTypes", hasW3CTypes(data)>>, <<"hasValues", hasW3CValues(data)>>})

CandidateTokenStudio(data, best) ==
    Candidate(best, checkTokenStudioFormat(data), "token-studio",
              {<<"hasMetadata", hasTokenStudioMetadata(data)>>})

CandidateStyleDictionary(data, best) ==
    Candidate(best, checkStyleDictionaryFormat(data), "style-dictionary",
              {<<"hasComments", hasStyleDictComments(data)>>})

\* return { format, confidence: Math.round(confidence), details }
Rounded(best) ==
    [format |-> best.format, confidence |-> MathRound(best.confidence),
     details |-> best.details]

\* detectFormat: the three candidates in source order
detectFormat(data) ==
    Rounded(CandidateStyleDictionary(data,
                CandidateTokenStudio(data, CandidateW3C(data, NoneDetected))))

(***************************************************************************)
(* The documents handed to the detector: up to MaxTopKeys top-level keys,  *)
(* each holding a scalar, a token-like object or a group of one (one group *)
(* is named "type", as a group of type styles is).                         *)
(***************************************************************************)
MaxTopKeys == 2

\* the members of a token-like object, in insertion order
LeafShapes ==
    { <<>>, <<"note">>, <<"comment">>,
      <<"$value">>, <<"$type">>, <<"$value", "$type">>,
      <<"value">>, <<"type">>, <<"value", "type">>,
      <<"value", "comment">>, <<"value", "type", "comment">>,
      <<"$value", "$type", "comment">>,
      <<"$value", "$type", "value", "type">>,
      <<"$value", "$type", "value", "type", "comment">> }

MemberValue(key) ==
    CASE key = "$value" -> JStr("#fff")
      [] key = "$type" -> JStr("color")
      [] key = "value" -> JStr("8")
      [] key = "type" -> JStr("spacing")
      [] OTHER -> JStr("text")

MkLeaf(keys) == JObj([n \in 1..Len(keys) |-> <<keys[n], MemberValue(keys[n])>>])

DocNodes ==
    {JStr("1")}
        \cup {MkLeaf(keys) : keys \in LeafShapes}
        \cup {JObj(<< <<"g", MkLeaf(keys)>> >>) : keys \in LeafShapes}
        \cup {JObj(<< <<"type", MkLeaf(<<"value", "type">>)>> >>)}

\* top-level key names: with and without a common category substring
TopKeyLists == { <<"Colors", "b", "c", "d">>, <<"a", "b", "c", "d">> }

\* the documents with k top-level keys
DetectDocs(k) ==
    { JObj([n \in 1..k |-> <<keys[n], nodes[n]>>]) :
        keys \in TopKeyLists, nodes \in [1..k -> DocNodes] }

NoDetection == [format |-> "none", confidence |-> 0, details |-> {}]

DetectIdle ==
    /\ detDoc = JNull
    /\ detOut = NoDetection

DetectStart ==
    /\ \E k \in 1..MaxTopKeys : detDoc \in DetectDocs(k)
    /\ detOut = NoDetection

\* formatDetector.detectFormat(data)
CallDetectFormat ==
    /\ detOut = NoDetection
    /\ detOut' = detectFormat(detDoc)
    /\ UNCHANGED <<detDoc, notDetectVars>>

NextDetect == CallDetectFormat

\* the key occurs in an object of the document, at any depth (the root included)
HasKeyAnywhere(data, key) == Has(data, key) \/ HasKeyBelow(data, key, 1)

FracEqual(a, b) == a.num * b.den = b.num * a.den

\* C9: the candidates are evaluated in the order w3c, token-studio,
\* style-dictionary and the running best is replaced only by a strictly
\* greater score: the winner's score is the maximum, it is strictly greater
\* than the score of every candidate evaluated before it, so that on equal
\* scores w3c wins against token-studio and token-studio against
\* style-dictionary.
C9_TiesFavourEarlierCandidate ==
    detOut # NoDetection =>
        LET w == checkW3CFormat(detDoc)
            t == checkTokenStudioFormat(detDoc)
            d == checkStyleDictionaryFormat(detDoc)
        IN  /\ detOut.format = "w3c-design-tokens" =>
                /\ FracGreaterOrEqual(w, t) /\ FracGreaterOrEqual(w, d)
                /\ detOut.confidence = MathRound(w)
            /\ detOut.format = "token-studio" =>
                /\ FracGreater(t, w) /\ FracGreaterOrEqual(t, d)
                /\ detOut.confidence = MathRound(t)
            /\ detOut.format = "style-dictionary" =>
                /\ FracGreater(d, w) /\ FracGreater(d, t)
                /\ detOut.confidence = MathRound(d)
            /\ (FracEqual(w, t) /\ FracGreaterOrEqual(w, d)) =>
                    detOut.format = "w3c-design-tokens"
            /\ (FracEqual(t, d) /\ FracGreater(t, w)) =>
                    detOut.format = "token-studio"

\* a detection in which all three candidates score 100: w3c won both ties
C9_Witness ==
    /\ detOut # NoDetection
    /\ FracEqual(checkW3CFormat(detDoc), Frac(100, 1))
    /\ FracEqual(checkTokenStudioFormat(detDoc), Frac(100, 1))
    /\ FracEqual(checkStyleDictionaryFormat(detDoc), Frac(100, 1))
    /\ detOut.format = "w3c-design-tokens"

\* a detection in which token-studio and style-dictionary tie above w3c
C9_StudioFlatTie ==
    /\ detOut # NoDetection
    /\ FracEqual(checkTokenStudioFormat(detDoc), checkStyleDictionaryFormat(detDoc))
    /\ FracGreater(checkTokenStudioFormat(detDoc), checkW3CFormat(detDoc))
    /\ detOut.format = "token-studio"

\* C10: a document with no "$value", "value" or "type" key at any depth is
\* detected as format 'unknown' with confidence 0.
C10_NoTokenNodesIsUnknown ==
    (/\ detOut # NoDetection
     /\ ~HasKeyAnywhere(detDoc, "$value")
     /\ ~HasKeyAnywhere(detDoc, "value")
     /\ ~HasKeyAnywhere(detDoc, "type"))
        => (detOut.format = "unknown" /\ detOut.confidence = 0)

\* the leaves of a document: the objects below obj that hold no object
RECURSIVE LeavesBelow(_, _)
IsLeaf(obj) == \A n \in 1..Len(obj.e) : ~IsObject(obj.e[n][2])

LeavesBelow(obj, n) ==
    IF n > Len(obj.e) THEN {}
    ELSE (IF ~IsObject(obj.e[n][2]) THEN {}
          ELSE IF IsLeaf(obj.e[n][2]) THEN {obj.e[n][2]}
          ELSE LeavesBelow(obj.e[n][2], 1))
         \cup LeavesBelow(obj, n + 1)

\* a key that starts with "$" occurs in the document, at any depth
RECURSIVE DollarKeyIn(_, _)
DollarKeyIn(obj, n) ==
    /\ n <= Len(obj.e)
    /\ \/ Char(obj.e[n][1], 1) = "$"
       \/ IsObject(obj.e[n][2]) /\ DollarKeyIn(obj.e[n][2], 1)
       \/ DollarKeyIn(obj, n + 1)

\* the document has leaves and each has both keys
EveryLeafHas(data, typeKey, valueKey) ==
    /\ LeavesBelow(data, 1) # {}
    /\ \A leaf \in LeavesBelow(data, 1) : Has(leaf, typeKey) /\ Has(leaf, valueKey)

\* C11: a document in which every leaf has both $type and $value gets the w3c
\* score 100, and a document in which every leaf has both type and value and
\* no key starts with "$" gets the token-studio score 100.
C11_FullDialectGivesFullConfidence ==
    detOut # NoDetection =>
        /\ EveryLeafHas(detDoc, "$type", "$value")
                => FracEqual(checkW3CFormat(detDoc), Frac(100, 1))
        /\ (EveryLeafHas(detDoc, "type", "value") /\ ~DollarKeyIn(detDoc, 1))
                => FracEqual(checkTokenStudioFormat(detDoc), Frac(100, 1))

\* the w3c half of C11 on its own
C11_FullW3CGivesFullConfidence ==
    (detOut # NoDetection /\ EveryLeafHas(detDoc, "$type", "$value"))
        => FracEqual(checkW3CFormat(detDoc), Frac(100, 1))

(***************************************************************************)
(* ImportPipelineOrchestrator: the helpers its stage handlers use.         *)
(***************************************************************************)
JUndef == [t |-> "undef", s |-> "", e |-> <<>>]

\* null in a field that otherwise holds a string
Null == "<null>"

\* obj.key (undefined when the object has no such member)
Prop(obj, key) == IF obj.t = "obj" /\ Has(obj, key) THEN Get(obj, key) ELSE JUndef

\* JavaScript truthiness of a value
Truthy(v) ==
    CASE v.t = "undef" -> FALSE
      [] v.t = "null" -> FALSE
      [] v.t = "str" -> v.s # ""
      [] v.t = "num" -> v.s # "0"
      [] OTHER -> TRUE

\* a || b
OrElse(a, b) == IF Truthy(a) THEN a ELSE b

Digits == "0123456789"
HexDigits == "0123456789abcdefABCDEF"

\* /^\d+$/
AllDigits(s) == Len(s) > 0 /\ \A i \in 1..Len(s) : Includes(Digits, Char(s, i))

\* /^\d+(\.\d+)?$/
IsNumberText(s) ==
    \/ AllDigits(s)
    \/ \E k \in 2..(Len(s) - 1) :
         /\ Char(s, k) = "."
         /\ AllDigits(SubSeq(s, 1, k - 1))
         /\ AllDigits(SubSeq(s, k + 1, Len(s)))

StartsWith(s, pre) == Len(s) >= Len(pre) /\ SubSeq(s, 1, Len(pre)) = pre
EndsWith(s, suf) ==
    Len(s) >= Len(suf) /\ SubSeq(s, Len(s) - Len(suf) + 1, Len(s)) = suf

\* /^#[0-9a-fA-F]{3,8}$/
IsHexColor(s) ==
    /\ Len(s) \in 4..9
    /\ Char(s, 1) = "#"
    /\ \A i \in 2..Len(s) : Includes(HexDigits, Char(s, i))

DimensionUnits ==
    {"px", "rem", "em", "%", "pt", "pc", "in", "cm", "mm", "ex", "ch",
     "vw", "vh", "vmin", "vmax"}

\* /^\d+(\.\d+)?(px|rem|...)$/
IsDimensionText(s) ==
    \E u \in DimensionUnits :
        EndsWith(s, u) /\ IsNumberText(SubSeq(s, 1, Len(s) - Len(u)))

\* detectTypeFromValue (EnhancedTypeSystem.detectType differs in the last cases)
detectTypeFromValue(value) ==
    CASE value.t = "str" ->
            IF IsHexColor(value.s) THEN "color"
            ELSE IF StartsWith(value.s, "rgb") \/ Includes(value.s, "hsl") THEN "color"
            ELSE IF IsDimensionText(value.s) THEN "dimension"
            ELSE IF AllDigits(value.s) THEN "number"
            ELSE "string"
      [] value.t = "num" -> "number"
      [] value.t = "bool" -> "boolean"
      [] value.t = "arr" -> "array"
      [] value.t \in {"obj", "null"} -> "object"
      [] OTHER -> "unknown"

detectType(value) ==
    CASE value.t = "str" -> detectTypeFromValue(value)
      [] value.t = "num" -> "number"
      [] value.t = "bool" -> "boolean"
      [] OTHER -> "unknown"

validateTypeConsistency(declaredType, value) ==
    \/ declaredType = detectType(value)
    \/ declaredType = "unknown"
    \/ detectType(value) = "unknown"

isAliasValue(value) ==
    value.t = "str" /\ StartsWith(value.s, "{") /\ EndsWith(value.s, "}")

\* extractAliasTarget: value.slice(1, -1), or null
extractAliasTarget(value) ==
    IF isAliasValue(value) THEN SubSeq(value.s, 2, Len(value.s) - 1) ELSE Null

getDefaultScopes(type) ==
    CASE type = "color" -> <<"ALL_SCOPES">>
      [] type = "dimension" -> <<"WIDTH_HEIGHT", "GAP">>
      [] type = "string" -> <<"TEXT_CONTENT">>
      [] type = "number" -> <<"ALL_SCOPES">>
      [] type = "boolean" -> <<"ALL_SCOPES">>
      [] OTHER -> <<"ALL_SCOPES">>

\* the text of a type member ($type / type), Undefined when it is falsy
TypeText(v) == IF Truthy(v) THEN v.s ELSE Undefined

\* currentPath.join('.')
RECURSIVE JoinDots(_)
JoinDots(path) ==
    IF Len(path) = 0 THEN ""
    ELSE IF Len(path) = 1 THEN path[1]
    ELSE path[1] \o "." \o JoinDots(Tail(path))

\* the token record flattenTokenStructure pushes for a token object
\* (documents carry no $extensions member)
FlatToken(value, currentPath, key, collection) ==
    LET val == OrElse(Prop(value, "$value"), Prop(value, "value"))
        declared == OrElse(Prop(value, "$type"), Prop(value, "type"))
        desc == OrElse(Prop(value, "$description"), Prop(value, "description"))
    IN  [path |-> JoinDots(currentPath),
         name |-> key,
         value |-> val,
         type |-> IF Truthy(declared) THEN declared.s ELSE detectTypeFromValue(val),
         description |-> IF Truthy(desc) THEN desc.s ELSE "",
         collection |-> collection,
         scopes |-> getDefaultScopes(TypeText(declared)),
         isAlias |-> isAliasValue(val),
         aliasTarget |-> extractAliasTarget(val),
         resolvedValue |-> JUndef,
         resolvedType |-> Undefined]

\* flattenTokenStructure.flattenRecursive over Object.entries(obj), from entry n
RECURSIVE flattenRecursive(_, _, _, _)
flattenRecursive(obj, path, collection, n) ==
    IF n > Len(obj.e) THEN <<>>
    ELSE LET key == obj.e[n][1]
             value == obj.e[n][2]
             currentPath == Append(path, key)
             here == IF ~IsObject(value) THEN <<>>
                     ELSE IF Has(value, "$value") \/ Has(value, "value")
                     THEN <<FlatToken(value, currentPath, key, collection)>>
                     ELSE flattenRecursive(value, currentPath, collection, 1)
         IN  here \o flattenRecursive(obj, path, collection, n + 1)

flattenTokenStructure(data) == flattenRecursive(data, <<>>, "Default", 1)

\* TokenProcessor.mapTokenStudioType: typeMap[type] || type
mapTokenStudioType(tokenStudioType) ==
    CASE tokenStudioType.s = "fontSize" -> JStr("dimension")
      [] tokenStudioType.s = "lineHeight" -> JStr("number")
      [] tokenStudioType.s = "spacing" -> JStr("dimension")
      [] tokenStudioType.s = "borderRadius" -> JStr("dimension")
      [] tokenStudioType.s = "borderWidth" -> JStr("dimension")
      [] tokenStudioType.s = "opacity" -> JStr("number")
      [] tokenStudioType.s = "boxShadow" -> JStr("shadow")
      [] OTHER -> tokenStudioType

\* TokenProcessor.convertTokenStudioFormat.convertTokenValue
convertTokenValue(token) ==
    JObj(<< <<"$value", Get(token, "value")>>,
            <<"$type", mapTokenStudioType(Get(token, "type"))>> >>
         \o (IF Truthy(Prop(token, "description"))
             THEN << <<"$description", Get(token, "description")>> >>
             ELSE <<>>))

\* TokenProcessor.convertTokenStudioFormat.processLevel, from entry n of source
RECURSIVE processLevel(_, _)
processLevel(source, n) ==
    IF n > Len(source.e) THEN <<>>
    ELSE LET key == source.e[n][1]
             value == source.e[n][2]
             here == IF ~IsObject(value) THEN <<>>
                     ELSE IF Has(value, "value") /\ Has(value, "type")
                     THEN << <<key, convertTokenValue(value)>> >>
                     ELSE << <<key, JObj(processLevel(value, 1))>> >>
         IN  here \o processLevel(source, n + 1)

\* this.tokenProcessor?.convertTokenStudioFormat?.(data) || data
convertTokenStudioFormat(data, hasProcessor) ==
    IF hasProcessor THEN JObj(processLevel(data, 1)) ELSE data

\* convertStyleDictionaryFormat.convertRecursive: converted[tokenPath] = {...}
RECURSIVE convertRecursive(_, _, _)
convertRecursive(obj, path, n) ==
    IF n > Len(obj.e) THEN <<>>
    ELSE LET key == obj.e[n][1]
             value == obj.e[n][2]
             here ==
                IF ~IsObject(value) THEN <<>>
                ELSE IF Has(value, "value")
                THEN << << JoinDots(Append(path, key)),
                           JObj(<< <<"$type",
                                     IF Truthy(Prop(value, "type"))
                                     THEN Get(value, "type")
                                     ELSE JStr(detectTypeFromValue(Get(value, "value")))>>,
                                   <<"$value", Get(value, "value")>>,
                                   <<"$description",
                                     OrElse(Prop(value, "comment"),
                                            Prop(value, "description"))>> >>) >> >>
                ELSE convertRecursive(value, Append(path, key), 1)
         IN  here \o convertRecursive(obj, path, n + 1)

\* an assignment converted[k] = v: a later write to a key replaces the value in place
RECURSIVE AssignAll(_, _)
AssignAll(entries, acc) ==
    IF Len(entries) = 0 THEN acc
    ELSE LET k == entries[1][1]
             hit == {n \in 1..Len(acc) : acc[n][1] = k}
         IN  AssignAll(Tail(entries),
                IF hit = {} THEN Append(acc, entries[1])
                ELSE [acc EXCEPT ![CHOOSE n \in hit : TRUE] = entries[1]])

convertStyleDictionaryFormat(data) == JObj(AssignAll(convertRecursive(data, <<>>, 1), <<>>))

(***************************************************************************)
(* ImportPipelineOrchestrator: the stage handlers.  A handler takes the    *)
(* context and the object this.metrics refers to when it runs, and yields  *)
(* both as it leaves them, with what it throws (out) and whether it is     *)
(* suspended on its inner await (pending).  A thrown value is an Error     *)
(* with a message, or a value without properties (null).                   *)
(***************************************************************************)
NoThrow == [thrown |-> FALSE, isError |-> FALSE, message |-> ""]
Err(msg) == [thrown |-> TRUE, isError |-> TRUE, message |-> msg]
NonError == [thrown |-> TRUE, isError |-> FALSE, message |-> ""]

\* what reading .message of null throws
TypeErrorMessage == "Cannot read properties of null (reading 'message')"

\* throw new Error(`${prefix}${error.message}`) inside a catch block
WrapError(prefix, error) ==
    IF error.isError THEN Err(prefix \o error.message) ELSE Err(TypeErrorMessage)

\* what a collaborator call can throw
ThrownValues == {Err("boom"), Err("Critical failure"), NonError}
Faults == {NoThrow} \cup ThrownValues

\* typeof value
TypeOf(v) ==
    CASE v.t = "str" -> "string"
      [] v.t = "num" -> "number"
      [] v.t = "bool" -> "boolean"
      [] v.t = "undef" -> "undefined"
      [] OTHER -> "object"

SizeLimit == 10 * 1024 * 1024

StageNames ==
    <<"validation", "format-detection", "preprocessing", "alias-resolution",
      "type-processing", "structure-creation", "post-processing">>

NewMetrics(startTime) ==
    [startTime |-> startTime, endTime |-> 0, processedTokens |-> 0,
     createdVariables |-> 0, updatedVariables |-> 0,
     errors |-> <<>>, warnings |-> <<>>]

NoStats == [present |-> FALSE, totalTokens |-> 0, totalCollections |-> 0, byType |-> <<>>]

EmptyResults ==
    [collections |-> <<>>, variables |-> <<>>, tokens |-> <<>>,
     skipped |-> <<>>, errors |-> <<>>, stats |-> NoStats]

DefaultOptions == [validateTypes |-> TRUE, resolveAliases |-> TRUE]

\* the context execute builds (flatTokens is undefined until preprocessing sets it)
NewContext(jsonData, options) ==
    [rawData |-> jsonData, processedData |-> JNull, formatInfo |-> NoDetection,
     options |-> options, stage |-> "initialization", flatTokens |-> <<>>,
     results |-> EmptyResults]

Returns(ctx, m) == [ctx |-> ctx, m |-> m, out |-> NoThrow, pending |-> FALSE]
Throws(ctx, m, error) == [ctx |-> ctx, m |-> m, out |-> error, pending |-> FALSE]

\* Stage 1 with the emptiness check left out
validateInputNoEmptyCheck(ctx, m) ==
    LET raw == ctx.rawData.json
    IN  IF ~Truthy(raw) \/ TypeOf(raw) # "object" \/ raw.t = "arr" \/ raw.t = "null"
        THEN Throws(ctx, m, Err("Invalid input: Expected valid JSON object, got "
                                 \o TypeOf(raw)))
        ELSE IF ctx.rawData.bytes > SizeLimit
        THEN Throws(ctx, m, Err("Input data too large (max 10MB)"))
        ELSE Returns(ctx, m)

\* Stage 1: validateInput
validateInput(ctx, m) ==
    LET raw == ctx.rawData.json
    IN  IF ~Truthy(raw) \/ TypeOf(raw) # "object" \/ raw.t = "arr" \/ raw.t = "null"
        THEN Throws(ctx, m, Err("Invalid input: Expected valid JSON object, got "
                                 \o TypeOf(raw)))
        ELSE IF ctx.rawData.bytes > SizeLimit
        THEN Throws(ctx, m, Err("Input data too large (max 10MB)"))
        ELSE IF Len(raw.e) = 0
        THEN Throws(ctx, m, Err("Input data is empty"))
        ELSE Returns(ctx, m)

\* Stage 2 after the detector returned formatInfo
Detected(ctx, m, formatInfo) ==
    Returns([ctx EXCEPT !.formatInfo = formatInfo],
            IF formatInfo.confidence < 50
            THEN [m EXCEPT !.warnings = Append(@, "Low confidence in format detection")]
            ELSE m)

\* Stage 2: detectFormat (fault: what this.formatDetector.detectFormat throws)
pipelineDetectFormat(ctx, m, fault) ==
    IF fault.thrown THEN Throws(ctx, m, fault)
    ELSE Detected(ctx, m, detectFormat(ctx.rawData.json))

\* Stage 3 after the conversion and the flattening
Flattened(ctx, m, processedData, flatTokens) ==
    Returns([ctx EXCEPT !.processedData = processedData, !.flatTokens = flatTokens],
            [m EXCEPT !.processedTokens = Len(flatTokens)])

\* Stage 3 after the conversion gave processedData
Converted(ctx, m, processedData) ==
    Flattened(ctx, m, processedData, flattenTokenStructure(processedData))

\* Stage 3: preprocessTokens (fault: what tokenProcessor.convertTokenStudioFormat
\* throws; hasProcessor: the orchestrator was constructed with a token processor)
preprocessTokens(ctx, m, fault, hasProcessor) ==
    IF ctx.formatInfo.format = "token-studio" /\ hasProcessor /\ fault.thrown
    THEN Throws(ctx, m, WrapError("Preprocessing failed: ", fault))
    ELSE Converted(ctx, m,
            IF ctx.formatInfo.format = "token-studio"
            THEN convertTokenStudioFormat(ctx.rawData.json, hasProcessor)
            ELSE IF ctx.formatInfo.format = "style-dictionary"
            THEN convertStyleDictionaryFormat(ctx.rawData.json)
            ELSE ctx.rawData.json)

\* tokenMap.get(path) after tokens.forEach(token => tokenMap.set(token.path, token)):
\* the index of the last token with that path, 0 when there is none
TokenWithPath(toks, path) ==
    LET hit == {n \in 1..Len(toks) : toks[n].path = path}
    IN  IF hit = {} THEN 0 ELSE CHOOSE n \in hit : \A k \in hit : k <= n

\* AdvancedAliasResolver.resolveAliases: tokens n.. of the list, written in place
RECURSIVE ResolveFrom(_, _)
ResolveFrom(toks, n) ==
    IF n > Len(toks) THEN toks
    ELSE LET token == toks[n]
             t == IF token.isAlias /\ token.aliasTarget \notin {Null, ""}
                  THEN TokenWithPath(toks, token.aliasTarget) ELSE 0
         IN  IF t # 0 /\ ~toks[t].isAlias
             THEN ResolveFrom([toks EXCEPT ![n].resolvedValue = toks[t].value,
                                           ![n].resolvedType = toks[t].type], n + 1)
             ELSE ResolveFrom(toks, n + 1)

AdvancedAliasResolver_resolveAliases(toks) == ResolveFrom(toks, 1)

\* Stage 4: resolveAliases up to its await (fault: the resolver's promise rejects)
pipelineResolveAliases(ctx, m, fault) ==
    IF ~ctx.options.resolveAliases THEN Returns(ctx, m)
    ELSE IF fault.thrown
    THEN [ctx |-> ctx, m |-> m, out |-> fault, pending |-> TRUE]
    ELSE [ctx |-> [ctx EXCEPT !.flatTokens = AdvancedAliasResolver_resolveAliases(@)],
          m |-> m, out |-> NoThrow, pending |-> TRUE]

\* Stage 4 after the await with a catch block that throws the error again
pipelineResolveAliasesResumeRethrows(ctx, m, settled) ==
    IF ~settled.thrown THEN Returns(ctx, m) ELSE Throws(ctx, m, settled)

\* Stage 4 after the await: the assignment, or the catch block
pipelineResolveAliasesResume(ctx, m, settled) ==
    IF ~settled.thrown THEN Returns(ctx, m)
    ELSE IF ~settled.isError THEN Throws(ctx, m, Err(TypeErrorMessage))
    ELSE Returns(ctx, [m EXCEPT !.warnings =
                          Append(@, "Alias resolution failed: " \o settled.message)])

\* Stage 5: the loop of processTypes over tokens n..
RECURSIVE TypeWarnings(_, _, _)
TypeWarnings(toks, n, validateTypes) ==
    IF n > Len(toks) THEN <<>>
    ELSE LET token == toks[n]
             type == IF token.type = "" THEN detectType(token.value) ELSE token.type
         IN  (IF validateTypes /\ ~validateTypeConsistency(type, token.value)
              THEN <<"Type inconsistency for token " \o token.path \o ": " \o type
                      \o " vs " \o TypeOf(token.value)>>
              ELSE <<>>)
             \o TypeWarnings(toks, n + 1, validateTypes)

\* Stage 5: processTypes (fault: what the first call of
\* this.typeSystem.validateTypeConsistency throws)
processTypes(ctx, m, fault) ==
    IF Len(ctx.flatTokens) > 0 /\ ctx.options.validateTypes /\ fault.thrown
    THEN Throws(ctx, m, WrapError("Type processing failed: ", fault))
    ELSE Returns([ctx EXCEPT !.flatTokens =
                     [n \in 1..Len(ctx.flatTokens) |->
                        IF ctx.flatTokens[n].type = ""
                        THEN [ctx.flatTokens[n] EXCEPT
                                 !.type = detectType(ctx.flatTokens[n].value)]
                        ELSE ctx.flatTokens[n]]],
                 [m EXCEPT !.warnings =
                     @ \o TypeWarnings(ctx.flatTokens, 1, ctx.options.validateTypes)])

\* collections.get(collectionName) after the has/set of createStructure
CollectionIndex(collections, name) ==
    LET hit == {n \in 1..Len(collections) : collections[n].name = name}
    IN  IF hit = {} THEN Len(collections) + 1 ELSE CHOOSE n \in hit : TRUE

\* the variable createStructure builds for a token (ids and timestamps left out)
VariableOf(token) ==
    [name |-> token.path,
     type |-> token.type,
     value |-> token.value,
     collection |-> IF token.collection = "" THEN "Default" ELSE token.collection,
     description |-> token.description,
     scopes |-> token.scopes,
     originalToken |-> token,
     isAlias |-> token.isAlias,
     aliasTarget |-> IF token.aliasTarget = "" THEN Null ELSE token.aliasTarget]

\* Stage 6: the loop of createStructure over tokens n..
RECURSIVE StructureLoop(_, _, _, _, _)
StructureLoop(toks, n, collections, variables, created) ==
    IF n > Len(toks)
    THEN [collections |-> collections, variables |-> variables, created |-> created]
    ELSE LET variable == VariableOf(toks[n])
             i == CollectionIndex(collections, variable.collection)
             known == IF i > Len(collections)
                      THEN Append(collections, [name |-> variable.collection,
                                                tokens |-> <<>>, variables |-> <<>>])
                      ELSE collections
         IN  StructureLoop(toks, n + 1,
                 [known EXCEPT ![i].tokens = Append(@, toks[n]),
                               ![i].variables = Append(@, variable)],
                 Append(variables, variable), created + 1)

\* Stage 6: createStructure
createStructure(ctx, m) ==
    LET built == StructureLoop(ctx.flatTokens, 1, <<>>, ctx.results.variables,
                               m.createdVariables)
    IN  Returns([ctx EXCEPT !.results.variables = built.variables,
                            !.results.collections = built.collections],
                [m EXCEPT !.createdVariables = built.created])

\* the order localeCompare gives the characters of the names that occur
CollationOrder == "_-.0123456789abcdefghijklmnopqrstuvwxyz"

\* a.localeCompare(b) <= 0
RECURSIVE LocaleLessOrEqual(_, _)
LocaleLessOrEqual(a, b) ==
    IF Len(a) = 0 THEN TRUE
    ELSE IF Len(b) = 0 THEN FALSE
    ELSE LET x == IndexOf(CollationOrder, Char(a, 1))
             y == IndexOf(CollationOrder, Char(b, 1))
         IN  IF x = y
             THEN LocaleLessOrEqual(SubSeq(a, 2, Len(a)), SubSeq(b, 2, Len(b)))
             ELSE x < y

\* one step of the stable sort by name: v goes after the last element not above it
RECURSIVE InsertByName(_, _)
InsertByName(sorted, v) ==
    IF Len(sorted) = 0 THEN <<v>>
    ELSE IF LocaleLessOrEqual(sorted[Len(sorted)].name, v.name)
    THEN Append(sorted, v)
    ELSE Append(InsertByName(SubSeq(sorted, 1, Len(sorted) - 1), v),
                sorted[Len(sorted)])

\* variables.sort((a, b) => a.name.localeCompare(b.name))
RECURSIVE SortByName(_, _)
SortByName(variables, sorted) ==
    IF Len(variables) = 0 THEN sorted
    ELSE SortByName(Tail(variables), InsertByName(sorted, variables[1]))

\* getTypeStatistics: the counts by type, in the order the types first occur
RECURSIVE getTypeStatistics(_, _)
getTypeStatistics(variables, stats) ==
    IF Len(variables) = 0 THEN stats
    ELSE LET type == IF variables[1].type = "" THEN "unknown" ELSE variables[1].type
             hit == {n \in 1..Len(stats) : stats[n][1] = type}
         IN  getTypeStatistics(Tail(variables),
                IF hit = {} THEN Append(stats, <<type, 1>>)
                ELSE LET n == CHOOSE k \in hit : TRUE
                     IN  [stats EXCEPT ![n] = <<type, stats[n][2] + 1>>])

\* Stage 7: postProcess
postProcess(ctx, m) ==
    LET sorted == SortByName(ctx.results.variables, <<>>)
    IN  Returns([ctx EXCEPT !.results.variables = sorted,
                            !.results.stats =
                                [present |-> TRUE,
                                 totalTokens |-> Len(sorted),
                                 totalCollections |-> Len(ctx.results.collections),
                                 byType |-> getTypeStatistics(sorted, <<>>)]],
                m)

\* an isCriticalError that goes by the message alone
isCriticalErrorByMessage(error, stageName) == Includes(error.message, "Critical")

\* isCriticalError(error, stageName)
isCriticalError(error, stageName) ==
    \/ stageName \in {"validation", "format-detection", "preprocessing"}
    \/ Includes(error.message, "Critical")

NoResult ==
    [keys |-> {}, success |-> FALSE, error |-> Undefined, stage |-> Undefined,
     metrics |-> 0, results |-> EmptyResults, formatInfo |-> NoDetection]

\* the object execute returns after the last stage; metrics is the reference
\* this.metrics holds then, errors and warnings are the arrays of that object
SuccessResult(ctx, metricsRef) ==
    [keys |-> {"success", "results", "metrics", "errors", "warnings", "formatInfo"},
     success |-> TRUE, error |-> Undefined, stage |-> Undefined,
     metrics |-> metricsRef, results |-> ctx.results, formatInfo |-> ctx.formatInfo]

\* the failure object with the stage the pipeline started from
FailureResultStageUnset(ctx, error, metricsRef) ==
    [keys |-> {"success", "error", "stage", "metrics", "results"},
     success |-> FALSE, error |-> error.message, stage |-> "initialization",
     metrics |-> metricsRef, results |-> ctx.results, formatInfo |-> NoDetection]

\* the object execute returns from its outer catch block
FailureResult(ctx, error, metricsRef) ==
    [keys |-> {"success", "error", "stage", "metrics", "results"},
     success |-> FALSE, error |-> error.message, stage |-> ctx.stage,
     metrics |-> metricsRef, results |-> ctx.results, formatInfo |-> NoDetection]

\* the handler of stage i calls a collaborator held in a field of the
\* orchestrator (formatDetector, tokenProcessor, aliasResolver, typeSystem)
CallsCollaborator(i, ctx, hasProcessor) ==
    CASE i = 2 -> TRUE
      [] i = 3 -> ctx.formatInfo.format = "token-studio" /\ hasProcessor
      [] i = 4 -> ctx.options.resolveAliases
      [] i = 5 -> Len(ctx.flatTokens) > 0 /\ ctx.options.validateTypes
      [] OTHER -> FALSE

\* stage.handler(context) for stage i, up to the handler's first await or its end
RunHandler(i, ctx, m, fault, hasProcessor) ==
    CASE i = 1 -> validateInput(ctx, m)
      [] i = 2 -> pipelineDetectFormat(ctx, m, fault)
      [] i = 3 -> preprocessTokens(ctx, m, fault, hasProcessor)
      [] i = 4 -> pipelineResolveAliases(ctx, m, fault)
      [] i = 5 -> processTypes(ctx, m, fault)
      [] i = 6 -> createStructure(ctx, m)
      [] OTHER -> postProcess(ctx, m)

(***************************************************************************)
(* The alias utilities as a state machine: the exported functions are      *)
(* called in any order on one Token[]; ALIAS_REGEX.lastIndex is the state  *)
(* that survives from one call to the next.                                *)
(***************************************************************************)
MaxTokens == 3
MaxDepthArg == 2
DefaultMaxDepth == 10

TokenNames == <<"a", "b", "c", "d", "e">>

\* token values: a reference to each token, a plain value, two references, a missing one
AliasValues ==
    {"{" \o TokenNames[i] \o "}" : i \in 1..MaxTokens}
        \cup {"#fff", "{a} {b}", "{zz}"}

\* the strings handed to hasAlias, extractAliases and resolveAliases
CallValues == {"{a}", "#fff", "{a} {b}"}

MkToken(name, value) ==
    [name |-> name, path |-> name, type |-> "COLOR", value |-> value,
     collection |-> "g", description |-> Undefined]

\* the Token[] of a call: tokens a, b, ... with any of the values.  Only the
\* last of three or more tokens may hold the two-reference value, and then no
\* token references it: a cycle through it makes the value grow with every
\* pass of the resolution loop.
AliasTokenLists ==
    UNION { { [i \in 1..n |-> MkToken(TokenNames[i], vs[i])] :
                vs \in { f \in [1..n -> AliasValues] :
                            /\ \A i \in 1..(n - 1) : f[i] # "{a} {b}"
                            /\ f[n] = "{a} {b}" =>
                                 /\ n >= 3
                                 /\ \A i \in 1..n :
                                      f[i] # "{" \o TokenNames[n] \o "}" } }
            : n \in 2..MaxTokens }

DepthArgs == (1..MaxDepthArg) \cup {DefaultMaxDepth}

NoCall == [op |-> "none", value |-> "", token |-> 0, maxDepth |-> 0, liBefore |-> 0]

AliasIdle ==
    /\ tokens = <<>>
    /\ lastIndex = 0
    /\ aliasCall = NoCall
    /\ aliasOut = [found |-> FALSE]

AliasStart ==
    /\ tokens \in AliasTokenLists
    /\ lastIndex = 0
    /\ aliasCall = NoCall
    /\ aliasOut = [found |-> FALSE]

CallHasAlias ==
    \E v \in CallValues :
        LET r == hasAlias(v, lastIndex)
        IN  /\ aliasCall' = [NoCall EXCEPT !.op = "hasAlias", !.value = v,
                                           !.liBefore = lastIndex]
            /\ aliasOut' = [found |-> r.found]
            /\ lastIndex' = r.lastIndex
            /\ UNCHANGED <<tokens, notAliasVars>>

CallExtractAliases ==
    \E v \in CallValues :
        /\ aliasCall' = [NoCall EXCEPT !.op = "extractAliases", !.value = v,
                                       !.liBefore = lastIndex]
        /\ aliasOut' = [aliases |-> extractAliases(v)]
        /\ lastIndex' = 0
        /\ UNCHANGED <<tokens, notAliasVars>>

CallResolveAliases ==
    \E v \in CallValues :
        /\ aliasCall' = [NoCall EXCEPT !.op = "resolveAliases", !.value = v,
                                       !.liBefore = lastIndex]
        /\ aliasOut' = resolveAliases(v, tokens)
        /\ lastIndex' = 0
        /\ UNCHANGED <<tokens, notAliasVars>>

CallGetResolvedTokenValue ==
    \E i \in 1..Len(tokens), maxDepth \in DepthArgs :
        LET r == getResolvedTokenValue(tokens[i], tokens, maxDepth, lastIndex)
        IN  /\ aliasCall' = [NoCall EXCEPT !.op = "getResolvedTokenValue",
                                           !.value = tokens[i].value, !.token = i,
                                           !.maxDepth = maxDepth,
                                           !.liBefore = lastIndex]
            /\ aliasOut' = [value |-> r.value, isCircular |-> r.isCircular,
                            resolvedAliases |-> r.resolvedAliases]
            /\ lastIndex' = r.lastIndex
            /\ UNCHANGED <<tokens, notAliasVars>>

CallValidateTokenAliases ==
    LET r == validateTokenAliases(tokens, lastIndex)
    IN  /\ aliasCall' = [NoCall EXCEPT !.op = "validateTokenAliases",
                                       !.liBefore = lastIndex]
        /\ aliasOut' = [results |-> r.results]
        /\ lastIndex' = r.lastIndex
        /\ UNCHANGED <<tokens, notAliasVars>>

NextAlias ==
    \/ CallHasAlias
    \/ CallExtractAliases
    \/ CallResolveAliases
    \/ CallGetResolvedTokenValue
    \/ CallValidateTokenAliases


(***************************************************************************)
(* The alias graph of a Token[], as the resolver looks references up.      *)
(***************************************************************************)
\* the token a reference resolves to (0: none), exact path first
TargetOf(reference, toks) ==
    LET tokenMap == createTokenMap(toks)
    IN  IF findTokenByPath(reference, tokenMap) # 0
        THEN findTokenByPath(reference, tokenMap)
        ELSE findTokenByAlternativePaths(reference, tokenMap)

RefsOf(value) ==
    LET al == extractAliases(value) IN {al[n].reference : n \in 1..Len(al)}

\* token i reaches in at most `fuel` alias hops only existing tokens, and
\* every chain from it ends within `fuel` hops
RECURSIVE ResolvesWithin(_, _, _)
ResolvesWithin(i, toks, fuel) ==
    \/ RefsOf(toks[i].value) = {}
    \/ /\ fuel > 0
       /\ \A ref \in RefsOf(toks[i].value) :
            /\ TargetOf(ref, toks) # 0
            /\ ResolvesWithin(TargetOf(ref, toks), toks, fuel - 1)

\* tokens a and b reference each other: a = "{b}", b = "{a}"
MutualReference(toks) ==
    /\ Len(toks) >= 2
    /\ toks[1].value = "{b}"
    /\ toks[2].value = "{a}"

\* C1: with a = "{b}" and b = "{a}", getResolvedTokenValue (default maxDepth)
\* returns isCircular = true for a and for b, whatever was called before.
C1_MutualReferenceIsCircular ==
    (/\ aliasCall.op = "getResolvedTokenValue"
     /\ aliasCall.maxDepth = DefaultMaxDepth
     /\ MutualReference(tokens)
     /\ aliasCall.token \in {1, 2})
        => aliasOut.isCircular

\* C2: a token whose alias graph is acyclic, of chain depth at most maxDepth,
\* and whose references all exist resolves with isCircular = false, every
\* alias valid and a value free of "{" and "}".
C2_AcyclicResolvesFully ==
    (/\ aliasCall.op = "getResolvedTokenValue"
     /\ ResolvesWithin(aliasCall.token, tokens,
                       Min(aliasCall.maxDepth, Len(tokens))))
        => /\ ~aliasOut.isCircular
           /\ \A n \in 1..Len(aliasOut.resolvedAliases) :
                aliasOut.resolvedAliases[n].isValid
           /\ ~Includes(aliasOut.value, "{")
           /\ ~Includes(aliasOut.value, "}")

\* the same two statements for calls that start with lastIndex = 0
C1_FromFreshRegex ==
    (aliasCall.liBefore = 0) => C1_MutualReferenceIsCircular

C2_FromFreshRegex ==
    (aliasCall.liBefore = 0) => C2_AcyclicResolvesFully

\* what the call of getResolvedTokenValue last made returns when no call was
\* made before it
FreshResolution ==
    getResolvedTokenValue(tokens[aliasCall.token], tokens, aliasCall.maxDepth, 0)

\* C24: the result of a call of hasAlias or getResolvedTokenValue is the result
\* its arguments give on their own, whatever calls were made before it.
C24_ResultsDependOnArgumentsOnly ==
    /\ aliasCall.op = "hasAlias" => aliasOut.found = hasAlias(aliasCall.value, 0).found
    /\ aliasCall.op = "getResolvedTokenValue"
          => /\ aliasOut.value = FreshResolution.value
             /\ aliasOut.isCircular = FreshResolution.isCircular
             /\ aliasOut.resolvedAliases = FreshResolution.resolvedAliases

\* what does hold: extractAliases and resolveAliases set lastIndex to 0
\* themselves and give the same result whatever was called before
C24_ExtractionDependsOnArgumentsOnly ==
    /\ aliasCall.op = "extractAliases" => aliasOut.aliases = extractAliases(aliasCall.value)
    /\ aliasCall.op = "resolveAliases" => aliasOut = resolveAliases(aliasCall.value, tokens)

\* the tokens the references of token i resolve to
Successors(i, toks) == {TargetOf(ref, toks) : ref \in RefsOf(toks[i].value)} \ {0}

\* the tokens reached from the tokens of from in one hop or more, at most fuel
RECURSIVE ReachedFrom(_, _, _)
ReachedFrom(from, toks, fuel) ==
    IF fuel = 0 THEN {}
    ELSE UNION {Successors(i, toks) : i \in from}
         \cup ReachedFrom(UNION {Successors(i, toks) : i \in from}, toks, fuel - 1)

\* the alias graph reachable from token i holds a cycle
CycleReachable(i, toks) ==
    \E j \in {i} \cup ReachedFrom({i}, toks, Len(toks)) :
        j \in ReachedFrom({j}, toks, Len(toks))

\* C25: getResolvedTokenValue returns isCircular = true only for a token from
\* which the alias graph reaches a cycle.
C25_CircularOnlyForCycles ==
    (aliasCall.op = "getResolvedTokenValue" /\ aliasOut.isCircular)
        => CycleReachable(aliasCall.token, tokens)

\* what does hold: a token whose references, and theirs, all exist is
\* reported circular only when a cycle is reached from it
C25_CircularOnlyForCyclesAmongExisting ==
    (/\ aliasCall.op = "getResolvedTokenValue"
     /\ aliasOut.isCircular
     /\ \A j \in {aliasCall.token} \cup ReachedFrom({aliasCall.token}, tokens, Len(tokens)) :
           \A ref \in RefsOf(tokens[j].value) : TargetOf(ref, tokens) # 0)
        => CycleReachable(aliasCall.token, tokens)

(***************************************************************************)
(* ImportPipelineOrchestrator.execute as a state machine.  One orchestrator*)
(* receives up to MaxCalls calls of execute; a call runs from one await to *)
(* the next as one step, and calls in flight interleave at their awaits.   *)
(* this.metrics is a reference into metricsHeap: object 0 is the one the   *)
(* constructor makes, object c the one call c makes when it resets the     *)
(* metrics.  Date.now() is the number of the call that reads the clock.    *)
(***************************************************************************)
MaxCalls == 2
Calls == 1..MaxCalls

\* at most MaxFaults collaborator calls throw in one run
MaxFaults == 1

TokenNode(value, type) == JObj(<< <<"$value", JStr(value)>>, <<"$type", JStr(type)>> >>)

W3CDoc ==
    JObj(<< <<"color",
              JObj(<< <<"primary", TokenNode("#fff", "color")>>,
                      <<"link", TokenNode("{color.primary}", "color")>>,
                      <<"gap", TokenNode("8px", "color")>> >>)>> >>)

StudioDoc ==
    JObj(<< <<"spacing",
              JObj(<< <<"sm", JObj(<< <<"value", JStr("8")>>,
                                      <<"type", JStr("spacing")>>,
                                      <<"description", JStr("small")>> >>)>> >>)>> >>)

StyleDoc ==
    JObj(<< <<"color",
              JObj(<< <<"base", JObj(<< <<"value", JStr("#fff")>>,
                                        <<"comment", JStr("white")>> >>)>> >>)>> >>)

PlainDoc == JObj(<< <<"a", JObj(<< <<"b", JStr("1")>> >>)>> >>)

\* a token whose type is none of the token types
SizingDoc == JObj(<< <<"size", JObj(<< <<"md", TokenNode("16px", "sizing")>> >>)>> >>)

\* a parsed document and the length of its JSON text
Parsed(json) == [json |-> json, bytes |-> JsonLength(json)]

\* a document whose text is longer than the limit: its bulk is left out of json
Oversized == [json |-> W3CDoc, bytes |-> SizeLimit + 1]

NoInput == [json |-> JUndef, bytes |-> 0]

InvalidInputs ==
    {Parsed(JNull), Parsed(JStr("x")), Parsed(JArr), Parsed(JObj(<<>>)), Oversized}

ValidInputs ==
    {Parsed(W3CDoc), Parsed(StudioDoc), Parsed(StyleDoc), Parsed(PlainDoc), Parsed(SizingDoc)}

PipelineInputs == InvalidInputs \cup ValidInputs

\* { strategy, validateTypes: true, resolveAliases: true, ...options }
OptionSets == {DefaultOptions, [validateTypes |-> FALSE, resolveAliases |-> FALSE]}

IdleExec ==
    [pc |-> "idle", index |-> 0, ctx |-> NewContext(NoInput, DefaultOptions),
     out |-> NoThrow, ret |-> NoResult, started |-> <<>>, failed |-> <<>>,
     ownErrors |-> <<>>, ownWarnings |-> <<>>, overlapped |-> FALSE]

InFlight(e) == e.pc \in {"stage", "resolver"}

PipeIdle ==
    /\ tokenProcessor = FALSE
    /\ metricsHeap = [r \in 0..MaxCalls |-> NewMetrics(0)]
    /\ thisMetrics = 0
    /\ execs = [c \in Calls |-> IdleExec]
    /\ faultsLeft = 0
    /\ overlap = FALSE

\* new ImportPipelineOrchestrator(tokenProcessor), as TokenProcessor makes it
Constructed ==
    /\ tokenProcessor = TRUE
    /\ metricsHeap = [r \in 0..MaxCalls |-> NewMetrics(0)]
    /\ thisMetrics = 0
    /\ execs = [c \in Calls |-> IdleExec]

\* the caller awaits each call before the next, as processTokenData does;
\* collaborator calls may throw
PipeStart ==
    /\ Constructed
    /\ faultsLeft = MaxFaults
    /\ overlap = FALSE

\* the callers do not wait for one another; the collaborators do not throw
OverlapStart ==
    /\ Constructed
    /\ faultsLeft = 0
    /\ overlap = TRUE

\* the warnings a handler pushed
Pushed(before, after) == SubSeq(after.warnings, Len(before.warnings) + 1, Len(after.warnings))

\* the loop body after the handler ran up to its await or its end with r
Entered(e, i, heap, ref, r) ==
    [heap |-> [heap EXCEPT ![ref] = r.m],
     exec |-> [e EXCEPT !.pc = IF r.pending THEN "resolver" ELSE "stage",
                        !.index = i, !.ctx = r.ctx, !.out = r.out,
                        !.started = Append(@, StageNames[i]),
                        !.failed = IF r.out.thrown THEN Append(@, StageNames[i]) ELSE @,
                        !.ownWarnings = @ \o Pushed(heap[ref], r.m)]]

\* the loop body up to the await: context.stage = stage.name, then the handler
EnterStage(e, i, heap, ref, fault, hasProcessor) ==
    Entered(e, i, heap, ref,
            RunHandler(i, [e.ctx EXCEPT !.stage = StageNames[i]], heap[ref],
                       fault, hasProcessor))

\* after the loop: endTime and the success object
Finished(e, heap, ref, now) ==
    [heap |-> [heap EXCEPT ![ref].endTime = now],
     exec |-> [e EXCEPT !.pc = "done", !.ret = SuccessResult(e.ctx, ref)]]

\* the outer catch block; reading error.message of a value without
\* properties throws out of execute, which rejects its promise
OuterCatch(e, heap, ref, now, error) ==
    [heap |-> [heap EXCEPT ![ref].endTime = now],
     exec |-> IF error.isError
              THEN [e EXCEPT !.pc = "done", !.ret = FailureResult(e.ctx, error, ref)]
              ELSE [e EXCEPT !.pc = "rejected"]]

\* the next iteration of the loop over pipelineStages
Advance(e, heap, ref, now, fault, hasProcessor) ==
    IF e.index = Len(StageNames) THEN Finished(e, heap, ref, now)
    ELSE EnterStage(e, e.index + 1, heap, ref, fault, hasProcessor)

\* the inner catch block of the loop
InnerCatch(e, heap, ref, now, fault, hasProcessor) ==
    LET name == StageNames[e.index]
        entry == [stage |-> name, error |-> e.out.message]
        warning == "Stage " \o name \o " failed, continuing with reduced functionality"
        logged == [heap EXCEPT ![ref].errors = Append(@, entry)]
        e1 == [e EXCEPT !.ownErrors = Append(@, entry)]
    IN  IF ~e.out.isError
        THEN OuterCatch(e, heap, ref, now, Err(TypeErrorMessage))
        ELSE IF isCriticalError(e.out, name)
        THEN OuterCatch(e1, logged, ref, now, e.out)
        ELSE Advance([e1 EXCEPT !.ownWarnings = Append(@, warning)],
                     [logged EXCEPT ![ref].warnings = Append(@, warning)],
                     ref, now, fault, hasProcessor)

\* the loop goes on to the next stage after the stage a call awaits
Continues(e) ==
    /\ e.index < Len(StageNames)
    /\ e.out.thrown => e.out.isError /\ ~isCriticalError(e.out, StageNames[e.index])

\* execute(jsonData, options) up to its first await: the metrics reset, the
\* context, and the validation handler
Execute(c, jsonData, options) ==
    /\ execs[c].pc = "idle"
    /\ \A k \in 1..(c - 1) : execs[k].pc # "idle"
    /\ overlap \/ \A k \in Calls : ~InFlight(execs[k])
    /\ LET stamped == [metricsHeap EXCEPT ![thisMetrics].startTime = c]
           reset == [stamped EXCEPT ![c] = NewMetrics(c)]
           meets == \E k \in Calls : InFlight(execs[k])
           e == [IdleExec EXCEPT !.ctx = NewContext(jsonData, options),
                                 !.overlapped = meets]
       IN  \E next \in {EnterStage(e, 1, reset, c, NoThrow, tokenProcessor)} :
             /\ metricsHeap' = next.heap
             /\ execs' = [k \in Calls |->
                            IF k = c THEN next.exec
                            ELSE IF InFlight(execs[k])
                            THEN [execs[k] EXCEPT !.overlapped = TRUE]
                            ELSE execs[k]]
    /\ thisMetrics' = c
    /\ UNCHANGED <<tokenProcessor, faultsLeft, overlap, notPipeVars>>

\* the await of a stage settles: the loop goes on, through the inner catch
\* block when the handler threw, to the next handler or to the return
StageSettles(c) ==
    /\ execs[c].pc = "stage"
    /\ \E fault \in Faults :
         LET Go(f) == IF execs[c].out.thrown
                      THEN InnerCatch(execs[c], metricsHeap, thisMetrics, c, f,
                                      tokenProcessor)
                      ELSE Advance(execs[c], metricsHeap, thisMetrics, c, f,
                                   tokenProcessor)
         IN  /\ fault.thrown =>
                  /\ faultsLeft > 0
                  /\ Continues(execs[c])
                  /\ CallsCollaborator(execs[c].index + 1, execs[c].ctx, tokenProcessor)
             /\ \E next \in {Go(fault)} :
                  /\ metricsHeap' = next.heap
                  /\ execs' = [execs EXCEPT ![c] = next.exec]
             /\ faultsLeft' = IF fault.thrown THEN faultsLeft - 1 ELSE faultsLeft
    /\ UNCHANGED <<tokenProcessor, thisMetrics, overlap, notPipeVars>>

\* the await inside the alias-resolution handler settles
ResolverSettles(c) ==
    /\ execs[c].pc = "resolver"
    /\ \E r \in {pipelineResolveAliasesResume(execs[c].ctx, metricsHeap[thisMetrics],
                                                execs[c].out)} :
           /\ metricsHeap' = [metricsHeap EXCEPT ![thisMetrics] = r.m]
           /\ execs' = [execs EXCEPT
                          ![c].pc = "stage", ![c].ctx = r.ctx, ![c].out = r.out,
                          ![c].ownWarnings = @ \o Pushed(metricsHeap[thisMetrics], r.m)]
    /\ UNCHANGED <<tokenProcessor, thisMetrics, faultsLeft, overlap, notPipeVars>>

NextPipeline ==
    \/ \E c \in Calls, jsonData \in PipelineInputs, options \in OptionSets :
         Execute(c, jsonData, options)
    \/ \E c \in Calls : StageSettles(c)
    \/ \E c \in Calls : ResolverSettles(c)

(***************************************************************************)
(* Properties of execute.                                                  *)
(***************************************************************************)
Settled(c) == execs[c].pc = "done"

\* what a settled call's caller reads through the returned object
ReturnedMetrics(c) == metricsHeap[execs[c].ret.metrics]

\* C3: execute never rejects; a settled call holds either success = true with
\* a warnings array, or success = false with one error message and the name
\* of the stage whose handler failed
C3_ExecuteNeverRejects ==
    \A c \in Calls :
        /\ execs[c].pc # "rejected"
        /\ Settled(c) =>
             \/ /\ execs[c].ret.success
                /\ {"warnings", "errors", "results"} \subseteq execs[c].ret.keys
                /\ "error" \notin execs[c].ret.keys
             \/ /\ ~execs[c].ret.success
                /\ {"error", "stage"} \subseteq execs[c].ret.keys
                /\ execs[c].out.thrown
                /\ execs[c].ret.error \in {execs[c].out.message, TypeErrorMessage}
                /\ execs[c].ret.stage = StageNames[execs[c].index]

\* one call failed in a stage after validation, another returned success
\* with warnings
C3_Witness ==
    \E c, d \in Calls :
        /\ Settled(c) /\ ~execs[c].ret.success
        /\ execs[c].ret.stage = "type-processing"
        /\ Settled(d) /\ execs[d].ret.success
        /\ Len(ReturnedMetrics(d).warnings) > 0

InputIsInvalid(jsonData) ==
    \/ jsonData.json.t # "obj"
    \/ Len(jsonData.json.e) = 0
    \/ jsonData.bytes > SizeLimit

\* C4: for null, a non-object, an array, an empty object or a text above
\* 10 MB, the call started no stage but validation, and returns success =
\* false at stage 'validation' with no tokens and no variables
C4_InvalidInputStopsAtValidation ==
    \A c \in Calls :
        (execs[c].pc # "idle" /\ InputIsInvalid(execs[c].ctx.rawData)) =>
            /\ execs[c].started = <<"validation">>
            /\ execs[c].pc \in {"stage", "done"}
            /\ Settled(c) =>
                 /\ ~execs[c].ret.success
                 /\ execs[c].ret.stage = "validation"
                 /\ execs[c].ret.results.tokens = <<>>
                 /\ execs[c].ret.results.variables = <<>>

\* an empty object and an oversized document have both been turned away
C4_Witness ==
    \E c, d \in Calls :
        /\ Settled(c) /\ execs[c].ctx.rawData = Parsed(JObj(<<>>))
        /\ Settled(d) /\ execs[d].ctx.rawData = Oversized
        /\ execs[d].ret.error = "Input data too large (max 10MB)"

\* C5: the metrics, errors and warnings a call returns hold the entries of
\* that call only, also when it overlapped another call
C5_OverlappingCallsKeepOwnMetrics ==
    \A c \in Calls :
        (Settled(c) /\ execs[c].overlapped) =>
            /\ ReturnedMetrics(c).errors = execs[c].ownErrors
            /\ ReturnedMetrics(c).warnings = execs[c].ownWarnings

\* the same for the calls that ran alone from start to return
C5_CallsInSequenceKeepOwnMetrics ==
    \A c \in Calls :
        (Settled(c) /\ ~execs[c].overlapped) =>
            /\ ReturnedMetrics(c).errors = execs[c].ownErrors
            /\ ReturnedMetrics(c).warnings = execs[c].ownWarnings

\* the handler of the stage threw, or the collaborator it awaited did
StageFailed(c, name) == \E i \in 1..Len(execs[c].failed) : execs[c].failed[i] = name

\* the warning the loop of execute pushes when it goes on after a failed stage
ContinuingWarning(name) ==
    "Stage " \o name \o " failed, continuing with reduced functionality"

HasWarning(c, text) ==
    \E i \in 1..Len(ReturnedMetrics(c).warnings) : ReturnedMetrics(c).warnings[i] = text

\* C12: a call in which the format-detection stage or the preprocessing stage
\* failed went on through all the stages and returned success = true with a
\* warning for the failed stage.
C12_DetectionAndPreprocessingFailuresDegrade ==
    \A c \in Calls :
        \A name \in {"format-detection", "preprocessing"} :
            (Settled(c) /\ StageFailed(c, name)) =>
                /\ execs[c].ret.success
                /\ execs[c].started = StageNames
                /\ HasWarning(c, ContinuingWarning(name))

\* what the code does instead: such a call stops at the failed stage and
\* returns success = false with the name of that stage
C12_DetectionAndPreprocessingFailuresAbort ==
    \A c \in Calls :
        \A name \in {"format-detection", "preprocessing"} :
            (Settled(c) /\ StageFailed(c, name)) =>
                /\ ~execs[c].ret.success
                /\ execs[c].ret.stage = name
                /\ execs[c].started[Len(execs[c].started)] = name

\* the tokens preprocessing produced for the call, with the type that type
\* processing fills in where the document gave none
PreprocessedTokens(c) ==
    {[token EXCEPT !.type = IF @ = "" THEN detectType(token.value) ELSE @] :
        token \in {flattenTokenStructure(execs[c].ctx.processedData)[n] :
                      n \in 1..Len(flattenTokenStructure(execs[c].ctx.processedData))}}

\* C13: a call in which the alias-resolution stage failed, and no other stage,
\* went on through type-processing, structure-creation and post-processing and
\* returned success = true, the variables made from the tokens preprocessing
\* produced, with a warning for the alias-resolution stage.
C13_AliasFailureDoesNotAbort ==
    \A c \in Calls :
        (Settled(c) /\ execs[c].failed = <<"alias-resolution">>) =>
            /\ execs[c].ret.success
            /\ execs[c].started = StageNames
            /\ {v.originalToken : v \in {execs[c].ret.results.variables[n] :
                    n \in 1..Len(execs[c].ret.results.variables)}} = PreprocessedTokens(c)
            /\ \/ HasWarning(c, ContinuingWarning("alias-resolution"))
               \/ \E i \in 1..Len(ReturnedMetrics(c).warnings) :
                     StartsWith(ReturnedMetrics(c).warnings[i], "Alias resolution failed: ")

\* the resolver rejected with an Error whose message says Critical, for a
\* document with an alias: the call returned success with its three variables
C13_Witness ==
    \E c \in Calls :
        /\ Settled(c)
        /\ execs[c].failed = <<"alias-resolution">>
        /\ execs[c].ret.success
        /\ HasWarning(c, "Alias resolution failed: Critical failure")
        /\ Len(execs[c].ret.results.variables) = 3

(***************************************************************************)
(* ExportEngine and its exporters (js-old/core).  A variable handed to     *)
(* export is a record: name, value and description are JSON values (a      *)
(* member the caller left out is undefined), type and collection are       *)
(* strings ("" for a collection left out).  Class bodies are strict code:  *)
(* creating a property on a primitive throws a TypeError.                  *)
(***************************************************************************)
\* a value thrown while a tree is built
Thrown(message) == [t |-> "throw", s |-> message, e |-> <<>>]

\* s.split(sep) for a one-character separator
RECURSIVE Split(_, _)
Split(s, sep) ==
    IF IndexOf(s, sep) = 0 THEN <<s>>
    ELSE <<SubSeq(s, 1, IndexOf(s, sep) - 1)>>
         \o Split(SubSeq(s, IndexOf(s, sep) + 1, Len(s)), sep)

\* s.replace(/[^keep]/g, d)
RECURSIVE ReplaceOutside(_, _, _)
ReplaceOutside(s, keep, d) ==
    IF Len(s) = 0 THEN ""
    ELSE (IF Includes(keep, Char(s, 1)) THEN Char(s, 1) ELSE d)
         \o ReplaceOutside(SubSeq(s, 2, Len(s)), keep, d)

\* obj[key] = value: a key the object has keeps its position
Assign(obj, key, value) ==
    IF Has(obj, key)
    THEN [obj EXCEPT !.e[CHOOSE n \in 1..Len(obj.e) : obj.e[n][1] = key] = <<key, value>>]
    ELSE [obj EXCEPT !.e = Append(@, <<key, value>>)]

\* the walk of an exporter down the segments of a name: if (!current[segment])
\* current[segment] = {}; current = current[segment]; at the last segment
\* current[tokenName] = leaf
RECURSIVE InsertAt(_, _, _)
Descend(obj, key, sub) == IF sub.t = "throw" THEN sub ELSE Assign(obj, key, sub)

InsertInto(obj, key, child, rest, leaf) ==
    IF ~Truthy(child) THEN Assign(obj, key, InsertAt(JObj(<<>>), rest, leaf))
    ELSE IF child.t \in {"str", "num"}
    THEN Thrown("Cannot create property '" \o rest[1] \o "' on "
                \o (IF child.t = "str" THEN "string" ELSE "number")
                \o " '" \o child.s \o "'")
    ELSE Descend(obj, key, InsertAt(child, rest, leaf))

InsertAt(obj, segs, leaf) ==
    IF Len(segs) = 1 THEN Assign(obj, segs[1], leaf)
    ELSE InsertInto(obj, segs[1], Prop(obj, segs[1]), Tail(segs), leaf)

Pad == "                                "
Spaces(n) == SubSeq(Pad, 1, n)

\* JSON.stringify(value, null, 2) from the indentation the value stands at
\* (no text of the documents needs an escape; an undefined member is left out)
RECURSIVE Stringify(_, _)
RECURSIVE StringifyEntries(_, _, _, _)
StringifyEntries(e, n, indent, first) ==
    IF n > Len(e) THEN ""
    ELSE IF e[n][2].t = "undef" THEN StringifyEntries(e, n + 1, indent, first)
    ELSE (IF first THEN "" ELSE ",\n") \o Spaces(indent)
         \o "\"" \o e[n][1] \o "\": " \o Stringify(e[n][2], indent)
         \o StringifyEntries(e, n + 1, indent, FALSE)

Stringify(v, indent) ==
    CASE v.t = "str" -> "\"" \o v.s \o "\""
      [] v.t = "num" -> v.s
      [] v.t = "null" -> "null"
      [] v.t = "arr" -> "[]"
      [] OTHER -> IF \A n \in 1..Len(v.e) : v.e[n][2].t = "undef" THEN "{}"
                  ELSE "{\n" \o StringifyEntries(v.e, 1, indent + 2, TRUE)
                       \o "\n" \o Spaces(indent) \o "}"

\* `${value}` in a template string
TemplateText(v) ==
    CASE v.t = "undef" -> "undefined"
      [] v.t = "null" -> "null"
      [] v.t = "obj" -> "[object Object]"
      [] OTHER -> v.s

\* what an exporter's exportSingle settles with
Rendered(content) == [thrown |-> FALSE, message |-> "", content |-> content]
Rejected(message) == [thrown |-> TRUE, message |-> message, content |-> ""]

\* W3CExporter.exportSingle: the token object written for a variable
W3CLeaf(variable) ==
    JObj(<< <<"$type", JStr(variable.type)>>, <<"$value", variable.value>> >>
         \o IF Truthy(variable.description)
            THEN << <<"$description", variable.description>> >> ELSE <<>>)

\* W3CExporter.exportSingle: the loop over data.variables from variable n
RECURSIVE W3CExportLoop(_, _, _)
W3CExportLoop(variables, n, tree) ==
    IF tree.t = "throw" \/ n > Len(variables) THEN tree
    ELSE IF variables[n].name.t # "str"
    THEN Thrown("Cannot read properties of undefined (reading 'split')")
    ELSE W3CExportLoop(variables, n + 1,
            InsertAt(tree, Split(variables[n].name.s, "."), W3CLeaf(variables[n])))

Serialized(tree) ==
    IF tree.t = "throw" THEN Rejected(tree.s) ELSE Rendered(Stringify(tree, 0))

W3CExporter_exportSingle(data) == Serialized(W3CExportLoop(data.variables, 1, JObj(<<>>)))

\* CSSExporter.toCSSVariableName
toCSSVariableName(name) == ToLowerCase(ReplaceOutside(name, UpperLetters \o LowerLetters \o Digits \o "-", "-"))

\* CSSExporter.formatValueForCSS
formatValueForCSS(value, type) ==
    IF type = "dimension" /\ value.t = "str" /\ IsNumberText(value.s)
    THEN value.s \o "px" ELSE TemplateText(value)

\* new Date().toISOString() when the style sheet is written
NowISO == "2025-01-01T00:00:00.000Z"

\* CSSExporter.exportSingle: the lines of the custom properties from variable n
RECURSIVE CSSExportLoop(_, _, _)
CSSExportLoop(variables, n, css) ==
    IF n > Len(variables) THEN Rendered(css \o "}\n")
    ELSE IF variables[n].name.t # "str"
    THEN Rejected("Cannot read properties of undefined (reading 'replace')")
    ELSE CSSExportLoop(variables, n + 1,
            css \o "  --" \o toCSSVariableName(variables[n].name.s) \o ": "
                \o formatValueForCSS(variables[n].value, variables[n].type) \o ";\n"
                \o (IF Truthy(variables[n].description)
                    THEN "  /* " \o TemplateText(variables[n].description) \o " */\n"
                    ELSE ""))

CSSExporter_exportSingle(data) ==
    CSSExportLoop(data.variables, 1,
        "/* Design tokens exported from Luckino */\n"
        \o "/* Generated on " \o NowISO \o " */\n\n" \o ":root {\n")

\* this.formats: the exporters the engine of the model holds
Formats == {"w3c", "css"}

\* exporter.exportSingle(data, options)
exporterExportSingle(format, data) ==
    IF format = "css" THEN CSSExporter_exportSingle(data)
    ELSE W3CExporter_exportSingle(data)

\* exporter.getFileExtension()
getFileExtension(format) == IF format = "css" THEN "css" ELSE "json"

\* ExportEngine.sanitizeFilename
sanitizeFilename(name) == ToLowerCase(ReplaceOutside(name, UpperLetters \o LowerLetters \o Digits, "-"))

\* the types of getExportSettings and of the defaults of export
ExportTypes == {"color", "dimension", "string", "number", "boolean"}

\* prepareExportData: variables.filter(variable => types.includes(variable.type))
RECURSIVE FilterByType(_, _)
FilterByType(variables, types) ==
    IF Len(variables) = 0 THEN <<>>
    ELSE (IF variables[1].type \in types THEN <<variables[1]>> ELSE <<>>)
         \o FilterByType(Tail(variables), types)

\* variable.collection || 'Default'
CollectionNameOf(variable) == IF variable.collection = "" THEN "Default" ELSE variable.collection

\* prepareExportData: the Map of collections, filled from variable n on
RECURSIVE GroupByCollection(_, _, _)
GroupByCollection(variables, n, collections) ==
    IF n > Len(variables) THEN collections
    ELSE GroupByCollection(variables, n + 1,
            IF \E i \in 1..Len(collections) : collections[i].name = CollectionNameOf(variables[n])
            THEN [i \in 1..Len(collections) |->
                    IF collections[i].name = CollectionNameOf(variables[n])
                    THEN [collections[i] EXCEPT !.variables = Append(@, variables[n])]
                    ELSE collections[i]]
            ELSE Append(collections, [name |-> CollectionNameOf(variables[n]),
                                      variables |-> <<variables[n]>>]))

Grouped(filteredVariables, options) ==
    [collections |-> GroupByCollection(filteredVariables, 1, <<>>),
     variables |-> filteredVariables,
     modes |-> options.modes,
     types |-> options.types]

\* ExportEngine.prepareExportData (the collection ids are left out)
prepareExportData(options) == Grouped(FilterByType(options.variables, options.types), options)

\* exportSeparate: collectionData for the collection at position ci
CollectionData(data, ci) ==
    [collections |-> <<data.collections[ci]>>,
     variables |-> data.collections[ci].variables,
     modes |-> data.modes,
     types |-> data.types]

\* exportCollectionModeSeparate: modeData for collection ci and mode mi
ModeData(data, ci, mi) ==
    [collections |-> <<data.collections[ci]>>,
     variables |-> data.collections[ci].variables,
     modes |-> <<data.modes[mi]>>,
     types |-> data.types]

ExportFile(filename, outcome) == [filename |-> filename, content |-> outcome.content]

NoExportResult == [success |-> FALSE, error |-> Undefined, files |-> <<>>, message |-> Undefined]

\* the catch of export: { success: false, error: error.message, files: [] }
ExportFailure(message) ==
    [success |-> FALSE, error |-> message, files |-> <<>>, message |-> Undefined]

ExportSuccess(files, message) ==
    [success |-> TRUE, error |-> Undefined, files |-> files, message |-> message]

\* exportSeparate after its loop
SeparateResult(files) ==
    ExportSuccess(files, "Exported " \o ToString(Len(files)) \o " collection files")

\* exportCollectionModeSeparate after its loops
ModeSeparateResult(files) ==
    ExportSuccess(files, "Exported " \o ToString(Len(files)) \o " collection-mode files")

\* exportSeparate from collection ci on, up to the next await or the return
SeparateFrom(run, files, ci) ==
    IF ci > Len(run.data.collections)
    THEN [run EXCEPT !.pc = "done", !.files = files, !.ci = ci,
                     !.result = SeparateResult(files)]
    ELSE [run EXCEPT !.pc = "separate", !.files = files, !.ci = ci]

\* exportCollectionModeSeparate from the pair (ci, mi) on
ModeSeparateFrom(run, files, ci, mi) ==
    IF ci > Len(run.data.collections) \/ Len(run.data.modes) = 0
    THEN [run EXCEPT !.pc = "done", !.files = files, !.ci = ci, !.mi = mi,
                     !.result = ModeSeparateResult(files)]
    ELSE [run EXCEPT !.pc = "mode-separate", !.files = files, !.ci = ci, !.mi = mi]

\* a loop of export that lets the error of one collection out of the loop
AfterCollectionRethrow(run, outcome) ==
    IF outcome.thrown
    THEN [run EXCEPT !.pc = "done", !.result = ExportFailure(outcome.message)]
    ELSE SeparateFrom(run,
            Append(run.files,
                   ExportFile(sanitizeFilename(run.data.collections[run.ci].name)
                              \o "." \o getFileExtension(run.format), outcome)),
            run.ci + 1)

\* exportSeparate: the try/catch around one collection once exportSingle settled
AfterCollection(run, outcome) ==
    SeparateFrom(run,
        IF outcome.thrown THEN run.files
        ELSE Append(run.files,
                    ExportFile(sanitizeFilename(run.data.collections[run.ci].name)
                               \o "." \o getFileExtension(run.format), outcome)),
        run.ci + 1)

\* exportCollectionModeSeparate: the try/catch around one collection/mode pair
AfterCollectionMode(run, outcome) ==
    ModeSeparateFrom(run,
        IF outcome.thrown THEN run.files
        ELSE Append(run.files,
                    ExportFile(sanitizeFilename(run.data.collections[run.ci].name)
                               \o "-" \o sanitizeFilename(run.data.modes[run.mi])
                               \o "." \o getFileExtension(run.format), outcome)),
        IF run.mi < Len(run.data.modes) THEN run.ci ELSE run.ci + 1,
        IF run.mi < Len(run.data.modes) THEN run.mi + 1 ELSE 1)

\* ExportEngine.exportSingle once the exporter settled; export catches the rethrow
AfterSingle(run, outcome) ==
    IF outcome.thrown
    THEN [run EXCEPT !.pc = "done", !.result = ExportFailure(outcome.message)]
    ELSE [run EXCEPT !.pc = "done",
             !.result = ExportSuccess(
                 <<ExportFile(run.filename \o "." \o getFileExtension(run.format), outcome)>>,
                 "Exported " \o ToString(Len(run.data.variables)) \o " tokens to single file")]

\* export(options) up to its first await, with the export data prepared
Started(options, data) ==
    [pc |-> "idle", format |-> options.format, exportType |-> options.exportType,
     filename |-> options.filename, data |-> data,
     ci |-> 1, mi |-> 1, files |-> <<>>, result |-> NoExportResult]

\* the switch of export on exportType
Dispatched(options, run) ==
    IF options.exportType = "separate" THEN SeparateFrom(run, <<>>, 1)
    ELSE IF options.exportType = "collection-mode-separate"
    THEN ModeSeparateFrom(run, <<>>, 1, 1)
    ELSE [run EXCEPT !.pc = "single"]

NoExportData == [collections |-> <<>>, variables |-> <<>>, modes |-> <<>>, types |-> {}]

\* ExportEngine.export: an unknown format throws before the data is prepared
export(options) ==
    IF options.format \notin Formats
    THEN [Started(options, NoExportData) EXCEPT !.pc = "done",
             !.result = ExportFailure("Unsupported export format: " \o options.format)]
    ELSE Dispatched(options, Started(options, prepareExportData(options)))

(***************************************************************************)
(* The export engine as a state machine: one call of export (the engine    *)
(* keeps nothing from one call to the next); the call runs from one await  *)
(* of exporter.exportSingle to the next as one step.                       *)
(***************************************************************************)
MaxVariables == 3

ExportVariable(name, type, value, collection, description) ==
    [name |-> name, type |-> type, value |-> value,
     collection |-> collection, description |-> description]

\* the variables a caller may hand over: one has no name, one has a type
\* outside the selected types, one has no collection
VariablePool ==
    {ExportVariable(JStr("color.primary"), "color", JStr("#fff"), "Brand Colors", JStr("main")),
     ExportVariable(JStr("space.sm"), "dimension", JStr("8"), "Layout", JUndef),
     ExportVariable(JUndef, "color", JStr("#000"), "Broken", JUndef),
     ExportVariable(JStr("note"), "shadow", JStr("none"), "Layout", JUndef),
     ExportVariable(JStr("color.primary.hover"), "color", JStr("#eee"), "", JUndef)}

RECURSIVE VariableListsOf(_)
VariableListsOf(k) ==
    IF k = 0 THEN {<<>>}
    ELSE VariableListsOf(k - 1)
         \cup {Append(l, v) : l \in {m \in VariableListsOf(k - 1) : Len(m) = k - 1},
                              v \in VariablePool}

ModeLists == {<<"Default">>, <<"Light", "Dark">>}

ExportOptions(k) ==
    [format : {"w3c", "css", "sketch"},
     exportType : {"single", "separate", "collection-mode-separate"},
     variables : {l \in VariableListsOf(k) :
                    \A i, j \in 1..Len(l) : i < j => l[i] # l[j]},
     modes : ModeLists,
     types : {ExportTypes},
     filename : {"tokens"}]

IdleExport == Started([format |-> "w3c", exportType |-> "single", filename |-> "tokens"],
                      NoExportData)

ExportIdle == exportRun = IdleExport

ExportStart == exportRun = IdleExport

\* await this.exportEngine.export(exportSettings)
CallExport ==
    /\ exportRun.pc = "idle"
    /\ \E options \in ExportOptions(MaxVariables) : exportRun' = export(options)
    /\ UNCHANGED notExportVars

\* exportSeparate: the exportSingle of the collection at hand settles
CollectionSettles ==
    /\ exportRun.pc = "separate"
    /\ exportRun' = AfterCollection(exportRun,
            exporterExportSingle(exportRun.format, CollectionData(exportRun.data, exportRun.ci)))
    /\ UNCHANGED notExportVars

\* exportCollectionModeSeparate: the exportSingle of the pair at hand settles
CollectionModeSettles ==
    /\ exportRun.pc = "mode-separate"
    /\ exportRun' = AfterCollectionMode(exportRun,
            exporterExportSingle(exportRun.format,
                                 ModeData(exportRun.data, exportRun.ci, exportRun.mi)))
    /\ UNCHANGED notExportVars

\* exportSingle: the exportSingle of the exporter settles
SingleSettles ==
    /\ exportRun.pc = "single"
    /\ exportRun' = AfterSingle(exportRun, exporterExportSingle(exportRun.format, exportRun.data))
    /\ UNCHANGED notExportVars

NextExport ==
    \/ CallExport
    \/ CollectionSettles
    \/ CollectionModeSettles
    \/ SingleSettles

(***************************************************************************)
(* Properties of the multi-file exports                                    *)
(***************************************************************************)
\* the rendering of collection ci (for any mode) returns
Renders(run, ci) ==
    ~exporterExportSingle(run.format, CollectionData(run.data, ci)).thrown

HasFile(run, filename) == \E f \in 1..Len(run.files) : run.files[f].filename = filename

\* the files of the collections and pairs the loop has passed
FilesSoFar(run) ==
    \A ci \in 1..Len(run.data.collections) :
        Renders(run, ci) =>
            /\ run.exportType = "separate" /\ ci < run.ci =>
                 HasFile(run, sanitizeFilename(run.data.collections[ci].name)
                              \o "." \o getFileExtension(run.format))
            /\ run.exportType = "collection-mode-separate" =>
                 \A mi \in 1..Len(run.data.modes) :
                     (ci < run.ci \/ (ci = run.ci /\ mi < run.mi)) =>
                         HasFile(run, sanitizeFilename(run.data.collections[ci].name)
                                      \o "-" \o sanitizeFilename(run.data.modes[mi])
                                      \o "." \o getFileExtension(run.format))

\* C7: in exportSeparate and exportCollectionModeSeparate every collection and
\* every collection/mode pair whose rendering does not throw has its file, both
\* while the loop runs and in the result, whatever the other renderings did;
\* the result is a success that holds exactly the files collected.
C7_FailingItemDoesNotStopTheOthers ==
    exportRun.format \in Formats
    /\ exportRun.exportType \in {"separate", "collection-mode-separate"}
    /\ exportRun.pc # "idle"
    => /\ FilesSoFar(exportRun)
       /\ exportRun.pc = "done" =>
            /\ exportRun.ci > Len(exportRun.data.collections)
            /\ exportRun.result.success
            /\ exportRun.result.files = exportRun.files

\* a finished export per collection in which the rendering of one collection
\* threw and a later collection has its file
C7_Witness ==
    /\ exportRun.pc = "done"
    /\ exportRun.exportType = "separate"
    /\ exportRun.format \in Formats
    /\ \E ci, cj \in 1..Len(exportRun.data.collections) :
         /\ ci < cj
         /\ ~Renders(exportRun, ci)
         /\ Renders(exportRun, cj)
         /\ Len(exportRun.result.files) > 0

(***************************************************************************)
(* lib/scopeUtils: the scopes of a token                                   *)
(***************************************************************************)
\* scopeMapping[key], <<>> for a key the table does not have
scopeMapping(key) ==
    CASE key = "color" -> <<"ALL_FILLS", "STROKE_COLOR", "EFFECT_COLOR">>
      [] key \in {"fills", "fill"} -> <<"ALL_FILLS">>
      [] key \in {"stroke", "strokes", "strokecolor"} -> <<"STROKE_COLOR">>
      [] key \in {"effect", "effects", "effectcolor", "shadow", "shadows"} -> <<"EFFECT_COLOR">>
      [] key = "dimension" -> <<"WIDTH_HEIGHT", "GAP", "CORNER_RADIUS">>
      [] key \in {"spacing", "gap"} -> <<"GAP">>
      [] key \in {"size", "width", "height"} -> <<"WIDTH_HEIGHT">>
      [] key \in {"borderradius", "border-radius", "radius", "corner"} -> <<"CORNER_RADIUS">>
      [] key = "typography" ->
            <<"TEXT_CONTENT", "FONT_FAMILY", "FONT_SIZE", "FONT_WEIGHT", "LINE_HEIGHT">>
      [] key = "text" -> <<"TEXT_CONTENT">>
      [] key \in {"fontfamily", "font-family"} -> <<"FONT_FAMILY">>
      [] key \in {"fontsize", "font-size"} -> <<"FONT_SIZE">>
      [] key \in {"fontweight", "font-weight"} -> <<"FONT_WEIGHT">>
      [] key \in {"lineheight", "line-height"} -> <<"LINE_HEIGHT">>
      [] key \in {"letterspacing", "letter-spacing"} -> <<"LETTER_SPACING">>
      [] key \in {"paragraphspacing", "paragraph-spacing"} -> <<"PARAGRAPH_SPACING">>
      [] key \in {"paragraphindent", "paragraph-indent"} -> <<"PARAGRAPH_INDENT">>
      [] key \in {"fontstyle", "font-style"} -> <<"FONT_STYLE">>
      [] key = "opacity" -> <<"OPACITY">>
      [] key = "float" -> <<"STROKE_FLOAT", "EFFECT_FLOAT">>
      [] key = "number" -> <<"STROKE_FLOAT", "EFFECT_FLOAT", "OPACITY", "FONT_WEIGHT">>
      [] OTHER -> <<>>

\* scopeCompatibility[tokenType], <<>> for a type the table does not have
scopeCompatibility(tokenType) ==
    CASE tokenType = "FLOAT" ->
            <<"CORNER_RADIUS", "WIDTH_HEIGHT", "GAP", "STROKE_FLOAT", "OPACITY",
              "EFFECT_FLOAT", "FONT_WEIGHT", "FONT_SIZE", "LINE_HEIGHT",
              "LETTER_SPACING", "PARAGRAPH_SPACING", "PARAGRAPH_INDENT">>
      [] tokenType = "COLOR" ->
            <<"ALL_SCOPES", "ALL_FILLS", "FRAME_FILL", "SHAPE_FILL", "TEXT_FILL",
              "STROKE_COLOR", "EFFECT_COLOR">>
      [] tokenType = "STRING" -> <<"TEXT_CONTENT", "FONT_FAMILY", "FONT_STYLE">>
      [] tokenType = "BOOLEAN" -> <<"ALL_SCOPES">>
      [] OTHER -> <<>>

\* s.replace(/[-_\s]/g, '')
RECURSIVE RemoveChars(_, _)
RemoveChars(s, drop) ==
    IF Len(s) = 0 THEN ""
    ELSE (IF Includes(drop, Char(s, 1)) THEN "" ELSE Char(s, 1))
         \o RemoveChars(SubSeq(s, 2, Len(s)), drop)

\* getScopeForTokenType: the fallbacks after the table of JSON types
FallbackScopes(tokenType) ==
    IF Len(scopeCompatibility(tokenType)) > 0 THEN scopeCompatibility(tokenType)
    ELSE <<"ALL_SCOPES">>

\* getScopeForTokenType (jsonType and tokenName are "" when left out)
getScopeForTokenType(tokenType, jsonType, tokenName) ==
    IF jsonType # "" /\ Len(scopeMapping(ToLowerCase(jsonType))) > 0
    THEN scopeMapping(ToLowerCase(jsonType))
    ELSE IF jsonType # "" /\ tokenName # ""
            /\ Len(scopeMapping(RemoveChars(ToLowerCase(tokenName), "-_ "))) > 0
    THEN scopeMapping(RemoveChars(ToLowerCase(tokenName), "-_ "))
    ELSE FallbackScopes(tokenType)

\* getIntelligentScope: a part of the path that may hint at a scope
IsPathHint(part) ==
    \/ Len(scopeMapping(part)) > 0
    \/ \E w \in {"spacing", "color", "border", "radius", "font", "text"} : Includes(part, w)

\* getIntelligentScope: the loop over pathHints
RECURSIVE FirstHintScope(_)
FirstHintScope(pathHints) ==
    IF Len(pathHints) = 0 THEN <<>>
    ELSE IF Len(scopeMapping(pathHints[1])) > 0 THEN scopeMapping(pathHints[1])
    ELSE FirstHintScope(Tail(pathHints))

\* getIntelligentScope: valueType, "" when the value gives no hint
ValueTypeHint(value) ==
    IF value = "" THEN ""
    ELSE IF StartsWith(value, "#") \/ StartsWith(value, "rgb") \/ StartsWith(value, "hsl")
    THEN "color"
    ELSE IF Includes(value, "px") \/ Includes(value, "rem") \/ Includes(value, "em")
    THEN "dimension"
    ELSE IF Includes(value, ",") /\ (Includes(value, "sans") \/ Includes(value, "serif"))
    THEN "fontfamily"
    ELSE ""

ScopeFromHints(hintScope, type, value, name) ==
    IF Len(hintScope) > 0 THEN hintScope
    ELSE getScopeForTokenType(type, ValueTypeHint(value), name)

\* getIntelligentScope({ type, path, value, name })
getIntelligentScope(type, path, value, name) ==
    IF type = "" THEN <<"ALL_SCOPES">>
    ELSE ScopeFromHints(
            IF path = "" THEN <<>>
            ELSE FirstHintScope(SelectSeq(Split(ToLowerCase(path), "."), IsPathHint)),
            type, value, name)

(***************************************************************************)
(* The token store (zustand) and its parser.  A Token of the store is a    *)
(* record: name, path, type, value and collection are strings, description *)
(* is the JSON value of the member it was read from (undefined when the    *)
(* member is missing), scope is the list of its scopes.                    *)
(***************************************************************************)
\* value && typeof value === 'object'
IsObjectLike(v) == v.t \in {"obj", "arr"}

Whitespace == " \t\n"

\* s.trim()
RECURSIVE TrimStart(_)
TrimStart(s) ==
    IF Len(s) > 0 /\ Includes(Whitespace, Char(s, 1)) THEN TrimStart(SubSeq(s, 2, Len(s)))
    ELSE s

RECURSIVE TrimEnd(_)
TrimEnd(s) ==
    IF Len(s) > 0 /\ Includes(Whitespace, Char(s, Len(s))) THEN TrimEnd(SubSeq(s, 1, Len(s) - 1))
    ELSE s

Trim(s) == TrimEnd(TrimStart(s))

\* /^[a-zA-Z]+$/
AllLetters(s) ==
    Len(s) > 0 /\ \A i \in 1..Len(s) : Includes(UpperLetters \o LowerLetters, Char(s, i))

\* isValidColorValue after the trim
IsColorText(colorStr) ==
    \/ StartsWith(colorStr, "#")
    \/ StartsWith(colorStr, "rgb")
    \/ StartsWith(colorStr, "hsl")
    \/ StartsWith(colorStr, "{")
    \/ AllLetters(colorStr)

isValidColorValue(value) == value.t = "str" /\ IsColorText(Trim(value.s))

\* the units of the regular expression of isValidDimensionValue
StoreDimensionUnits ==
    {"px", "rem", "em", "%", "vh", "vw", "pt", "pc", "in", "cm", "mm", "ex", "ch",
     "lh", "vmin", "vmax"}

\* isValidDimensionValue after the trim (the unit is matched without regard to case)
IsStoreDimensionText(dimStr) ==
    \/ \E u \in StoreDimensionUnits :
          /\ EndsWith(ToLowerCase(dimStr), u)
          /\ IsNumberText(SubSeq(dimStr, 1, Len(dimStr) - Len(u)))
    \/ IsNumberText(dimStr)
    \/ StartsWith(dimStr, "{")
    \/ Includes(dimStr, "calc(")

isValidDimensionValue(value) ==
    \/ value.t = "num"
    \/ value.t = "str" /\ IsStoreDimensionText(Trim(value.s))

\* isValidTokenValue: the switch on the lower-cased type
ValidForType(typeStr, value) ==
    CASE typeStr = "color" -> isValidColorValue(value)
      [] typeStr \in {"dimension", "sizing", "spacing"} -> isValidDimensionValue(value)
      [] OTHER -> TRUE

\* isValidTokenValue(type, value); a JSON value is never undefined or a function
isValidTokenValue(type, value) ==
    /\ type.t \notin {"null", "undef"}
    /\ value.t \notin {"null", "undef"}
    /\ type.t = "str"
    /\ Trim(type.s) # ""
    /\ ValidForType(ToLowerCase(type.s), value)

\* mapTokenType: the switch on the lower-cased type
MappedTokenType(lowered) ==
    CASE lowered = "color" -> "COLOR"
      [] lowered \in {"dimension", "sizing"} -> "DIMENSION"
      [] lowered \in {"fontfamily", "fontweight", "fontsize", "typography"} -> "TYPOGRAPHY"
      [] lowered = "spacing" -> "SPACING"
      [] lowered = "borderradius" -> "BORDER_RADIUS"
      [] lowered = "opacity" -> "OPACITY"
      [] lowered \in {"boxshadow", "shadow"} -> "SHADOW"
      [] OTHER -> "COLOR"

\* mapTokenType(type)
mapTokenType(type) == MappedTokenType(ToLowerCase(type))

\* the Token parseObjectRecursive pushes
StoreToken(key, currentPath, tokenType, value, collection, description) ==
    [name |-> key,
     path |-> currentPath,
     type |-> tokenType,
     value |-> value,
     collection |-> collection,
     description |-> description,
     scope |-> getIntelligentScope(tokenType, currentPath, value, key)]

\* parseObjectRecursive: the body of the loop for one entry; the messages
\* pushed to errors are only logged
RECURSIVE parseObjectRecursive(_, _, _, _)
ParsedEntry(key, value, currentPath, collection) ==
    IF ~IsObjectLike(value) THEN <<>>
    ELSE IF Has(value, "$type") /\ Has(value, "$value")
    THEN IF isValidTokenValue(Get(value, "$type"), Get(value, "$value"))
         THEN <<StoreToken(key, currentPath,
                           mapTokenType(TemplateText(Get(value, "$type"))),
                           TemplateText(Get(value, "$value")),
                           collection, Prop(value, "$description"))>>
         ELSE <<>>
    ELSE IF Has(value, "type") /\ Has(value, "value")
    THEN IF isValidTokenValue(Get(value, "type"), Get(value, "value"))
         THEN <<StoreToken(key, currentPath,
                           mapTokenType(TemplateText(Get(value, "type"))),
                           TemplateText(Get(value, "value")),
                           collection, Prop(value, "description"))>>
         ELSE <<>>
    ELSE parseObjectRecursive(value, currentPath, collection, 1)

\* parseObjectRecursive(obj, path, collection, tokens, errors) from entry n on
parseObjectRecursive(obj, path, collection, n) ==
    IF n > Len(obj.e) THEN <<>>
    ELSE ParsedEntry(obj.e[n][1], obj.e[n][2],
                     IF path = "" THEN obj.e[n][1] ELSE path \o "." \o obj.e[n][1],
                     collection)
         \o parseObjectRecursive(obj, path, collection, n + 1)

\* parseTokensFromJSON: the loop over the top-level keys from key n on
RECURSIVE ParseCollections(_, _)
ParseCollections(jsonData, n) ==
    IF n > Len(jsonData.e) THEN <<>>
    ELSE (IF IsObjectLike(jsonData.e[n][2])
          THEN parseObjectRecursive(jsonData.e[n][2], "", jsonData.e[n][1], 1)
          ELSE <<>>)
         \o ParseCollections(jsonData, n + 1)

\* parseTokensFromJSON(jsonData)
parseTokensFromJSON(jsonData) ==
    IF ~IsObjectLike(jsonData) THEN <<>> ELSE ParseCollections(jsonData, 1)

\* the Map from collection name to tokens that organizeTokensIntoCollections and
\* groupTokensByCollection fill, from token n on
RECURSIVE GroupTokens(_, _, _, _)
GroupName(token, fallback) == IF token.collection = "" THEN fallback ELSE token.collection

GroupTokens(toks, n, groups, fallback) ==
    IF n > Len(toks) THEN groups
    ELSE GroupTokens(toks, n + 1,
            IF \E i \in 1..Len(groups) : groups[i].name = GroupName(toks[n], fallback)
            THEN [i \in 1..Len(groups) |->
                    IF groups[i].name = GroupName(toks[n], fallback)
                    THEN [groups[i] EXCEPT !.tokens = Append(@, toks[n])]
                    ELSE groups[i]]
            ELSE Append(groups, [name |-> GroupName(toks[n], fallback),
                                 tokens |-> <<toks[n]>>]),
            fallback)

TokenCollections(groups) ==
    [i \in 1..Len(groups) |->
        [id |-> groups[i].name, name |-> groups[i].name,
         tokens |-> groups[i].tokens, count |-> Len(groups[i].tokens)]]

\* organizeTokensIntoCollections(tokens)
organizeTokensIntoCollections(toks) == TokenCollections(GroupTokens(toks, 1, <<>>, "global"))

(***************************************************************************)
(* W3CExportBuilder (lib/w3cExport).  Token.value is a string and          *)
(* Token.type one of the seven types of Token, so W3C types other than     *)
(* color, dimension, typography, number and shadow, and the multi-mode     *)
(* branch of processTokenValue (an object value), do not occur.            *)
(***************************************************************************)
\* s.toUpperCase()
RECURSIVE ToUpperCase(_)
ToUpperCase(s) ==
    IF Len(s) = 0 THEN ""
    ELSE (IF IndexOf(LowerLetters, Char(s, 1)) = 0 THEN Char(s, 1)
          ELSE Char(UpperLetters, IndexOf(LowerLetters, Char(s, 1))))
         \o ToUpperCase(SubSeq(s, 2, Len(s)))

\* TOKEN_TYPE_MAPPING[key], Undefined for a key the table does not have
TOKEN_TYPE_MAPPING(key) ==
    CASE key \in {"COLOR", "color"} -> "color"
      [] key \in {"DIMENSION", "dimension", "SPACING", "spacing", "BORDER_RADIUS",
                  "borderRadius", "WIDTH", "HEIGHT", "size"} -> "dimension"
      [] key \in {"FONT_FAMILY", "fontFamily"} -> "fontFamily"
      [] key \in {"FONT_WEIGHT", "fontWeight"} -> "fontWeight"
      [] key \in {"TYPOGRAPHY", "typography"} -> "typography"
      [] key \in {"DURATION", "duration"} -> "duration"
      [] key \in {"CUBIC_BEZIER", "cubicBezier"} -> "cubicBezier"
      [] key \in {"TRANSITION", "transition"} -> "transition"
      [] key \in {"NUMBER", "number", "OPACITY", "opacity", "FLOAT", "float"} -> "number"
      [] key \in {"BORDER", "border"} -> "border"
      [] key \in {"SHADOW", "shadow"} -> "shadow"
      [] key \in {"GRADIENT", "gradient"} -> "gradient"
      [] key \in {"STRING", "string"} -> "string"
      [] OTHER -> Undefined

\* mapToW3CType(tokenType)
mapToW3CType(tokenType) ==
    IF TOKEN_TYPE_MAPPING(ToUpperCase(tokenType)) = Undefined THEN "string"
    ELSE TOKEN_TYPE_MAPPING(ToUpperCase(tokenType))

\* isAliasReference(value)
isAliasReference(value) == Includes(value, "{") /\ Includes(value, "}")

\* processDimensionValue for a string
processDimensionValue(value) == IF IsNumberText(value) THEN value \o "px" ELSE value

\* the length of the run of digits s starts with
RECURSIVE DigitRun(_)
DigitRun(s) ==
    IF Len(s) > 0 /\ Includes(Digits, Char(s, 1)) THEN 1 + DigitRun(SubSeq(s, 2, Len(s)))
    ELSE 0

RECURSIVE StripLeadingZeros(_)
StripLeadingZeros(s) ==
    IF Len(s) > 1 /\ Char(s, 1) = "0" THEN StripLeadingZeros(SubSeq(s, 2, Len(s))) ELSE s

RECURSIVE StripTrailingZeros(_)
StripTrailingZeros(s) ==
    IF Len(s) > 0 /\ Char(s, Len(s)) = "0" THEN StripTrailingZeros(SubSeq(s, 1, Len(s) - 1))
    ELSE s

\* the text JavaScript prints for the number with these integer and fraction digits
NumberText(int, frac) ==
    (IF int = "" THEN "0" ELSE StripLeadingZeros(int))
    \o (IF StripTrailingZeros(frac) = "" THEN "" ELSE "." \o StripTrailingZeros(frac))

\* the digits after the point when the text goes on with one
FractionOf(rest) ==
    IF Len(rest) > 0 /\ Char(rest, 1) = "."
    THEN SubSeq(rest, 2, 1 + DigitRun(SubSeq(rest, 2, Len(rest))))
    ELSE ""

\* parseFloat of an unsigned text without exponent; "NaN" when no number starts it
ParseUnsigned(s, intLen) ==
    IF intLen = 0 /\ FractionOf(s) = "" THEN "NaN"
    ELSE NumberText(SubSeq(s, 1, intLen), FractionOf(SubSeq(s, intLen + 1, Len(s))))

Negated(text) == IF text \in {"NaN", "0"} THEN text ELSE "-" \o text

Signed(s) ==
    IF Len(s) > 0 /\ Char(s, 1) = "-"
    THEN Negated(ParseUnsigned(SubSeq(s, 2, Len(s)), DigitRun(SubSeq(s, 2, Len(s)))))
    ELSE IF Len(s) > 0 /\ Char(s, 1) = "+"
    THEN ParseUnsigned(SubSeq(s, 2, Len(s)), DigitRun(SubSeq(s, 2, Len(s))))
    ELSE ParseUnsigned(s, DigitRun(s))

\* parseFloat(value): the text of the number
parseFloat(value) == Signed(TrimStart(value))

\* processNumberValue for a string
processNumberValue(value) ==
    IF parseFloat(value) = "NaN" THEN JNum("0") ELSE JNum(parseFloat(value))

\* processTokenValue(value, type, detectedModes, options)
processTokenValue(value, type) ==
    IF isAliasReference(value) THEN JStr(value)
    ELSE CASE type = "color" -> JStr(value)
           [] type = "dimension" -> JStr(processDimensionValue(value))
           [] type = "number" -> processNumberValue(value)
           [] OTHER -> JStr(value)

\* buildW3CToken(token, detectedModes, options)
buildW3CToken(token) ==
    JObj(<< <<"$value", processTokenValue(token.value, mapToW3CType(token.type))>>,
            <<"$type", JStr(mapToW3CType(token.type))>> >>
         \o IF Truthy(token.description)
            THEN << <<"$description", token.description>> >> ELSE <<>>)

\* parseTokenPath(path)
parseTokenPath(path) ==
    SelectSeq(Split(ReplaceAllChar(
                        IF Includes(path, "/")
                        THEN SubSeq(path, IndexOf(path, "/") + 1, Len(path)) ELSE path,
                        "/", "."), "."),
              LAMBDA segment : Len(segment) > 0)

\* insertTokenIntoStructure: the last segment of an empty list is undefined
SegmentsOrUndefined(pathSegments) ==
    IF Len(pathSegments) = 0 THEN <<"undefined">> ELSE pathSegments

insertTokenIntoStructure(collection, token) ==
    InsertAt(collection, SegmentsOrUndefined(parseTokenPath(token.path)), buildW3CToken(token))

\* buildCollection: tokens.forEach from token n on
RECURSIVE buildCollection(_, _, _)
buildCollection(toks, n, collection) ==
    IF collection.t = "throw" \/ n > Len(toks) THEN collection
    ELSE buildCollection(toks, n + 1, insertTokenIntoStructure(collection, toks[n]))

\* buildW3CCompliantJSON: the loop over collectionGroups from group n on
RECURSIVE BuildGroups(_, _, _)
BuildGroups(groups, n, result) ==
    IF result.t = "throw" \/ n > Len(groups) THEN result
    ELSE BuildGroups(groups, n + 1,
            Descend(result, groups[n].name, buildCollection(groups[n].tokens, 1, JObj(<<>>))))

\* buildW3CCompliantJSON(tokens, options): the result, or what it throws
buildW3CCompliantJSON(toks) ==
    BuildGroups(GroupTokens(toks, 1, <<>>, "Design Tokens"), 1, JObj(<<>>))

\* isW3CToken(obj)
isW3CToken(obj) == IsObjectLike(obj) /\ (Has(obj, "$value") \/ Has(obj, "$type"))

\* validateStructure(obj, path, errors): the errors pushed from entry n on
RECURSIVE validateStructure(_, _, _)
TokenErrors(value, currentPath) ==
    (IF ~Truthy(Prop(value, "$value")) THEN <<"Missing $value at " \o currentPath>> ELSE <<>>)
    \o (IF ~Truthy(Prop(value, "$type")) THEN <<"Missing $type at " \o currentPath>> ELSE <<>>)

EntryErrors(key, value, currentPath) ==
    IF StartsWith(key, "$") THEN <<>>
    ELSE IF isW3CToken(value) THEN TokenErrors(value, currentPath)
    ELSE IF IsObjectLike(value) THEN validateStructure(value, currentPath, 1)
    ELSE <<>>

validateStructure(obj, path, n) ==
    IF n > Len(obj.e) THEN <<>>
    ELSE EntryErrors(obj.e[n][1], obj.e[n][2],
                     IF path = "" THEN obj.e[n][1] ELSE path \o "." \o obj.e[n][1])
         \o validateStructure(obj, path, n + 1)

Validation(errors) == [valid |-> Len(errors) = 0, errors |-> errors]

\* validateW3CCompliance(json)
validateW3CCompliance(json) == Validation(validateStructure(json, "", 1))

(***************************************************************************)
(* The actions of the store.  set(partial) merges the partial state into   *)
(* the state.                                                              *)
(***************************************************************************)
NoExport ==
    [present |-> FALSE, success |-> FALSE, error |-> Undefined, json |-> JObj(<<>>),
     validation |-> Validation(<<>>), tokensCount |-> 0, collectionsCount |-> 0]

\* the state create() starts the store with
InitialStore ==
    [tokens |-> <<>>, collections |-> <<>>, selectedTokens |-> <<>>,
     searchQuery |-> "", filterByType |-> "", expandedCollections |-> <<>>,
     currentPage |-> "browse-tokens", figmaCollections |-> <<>>,
     figmaExportResult |-> NoExport, isExporting |-> FALSE, lastExportConfig |-> Null]

\* a setTokens that keeps the tokens the store holds
setTokensKeepsTokens(state, toks) ==
    [state EXCEPT !.tokens = @ \o toks,
                  !.collections = organizeTokensIntoCollections(state.tokens \o toks)]

\* setTokens(tokens)
setTokens(state, toks) ==
    [state EXCEPT !.tokens = toks, !.collections = organizeTokensIntoCollections(toks)]

\* addTokens(newTokens)
addTokens(state, newTokens) ==
    [state EXCEPT !.tokens = state.tokens \o newTokens,
                  !.collections = organizeTokensIntoCollections(state.tokens \o newTokens)]

\* clearTokens()
clearTokens(state) == InitialStore

\* loadFromJSON(jsonData): get().setTokens(parseTokensFromJSON(jsonData))
loadFromJSON(state, jsonData) == setTokens(state, parseTokensFromJSON(jsonData))

\* loadSampleData: set({ tokens, collections }) once the sample is parsed
SampleLoaded(state, toks) ==
    [state EXCEPT !.tokens = toks, !.collections = organizeTokensIntoCollections(toks)]

\* loadSampleData(sampleData)
loadSampleData(state, sampleData) == SampleLoaded(state, parseTokensFromJSON(sampleData))

\* exportToW3C: the result once buildW3CCompliantJSON returned w3cJson, or the
\* errorResult of the catch (the time of the export is left out of metadata)
W3CResult(toks, w3cJson) ==
    IF w3cJson.t = "throw"
    THEN [present |-> TRUE, success |-> FALSE, error |-> w3cJson.s, json |-> JObj(<<>>),
          validation |-> [valid |-> FALSE, errors |-> <<w3cJson.s>>],
          tokensCount |-> 0, collectionsCount |-> 0]
    ELSE [present |-> TRUE, success |-> TRUE, error |-> Undefined, json |-> w3cJson,
          validation |-> validateW3CCompliance(w3cJson),
          tokensCount |-> Len(toks), collectionsCount |-> Len(w3cJson.e)]

\* exportToW3C(options): it has no await, so it runs to its end when called
exportToW3C(state) ==
    [state EXCEPT !.isExporting = FALSE,
                  !.figmaExportResult = W3CResult(state.tokens,
                                                  buildW3CCompliantJSON(state.tokens))]

(***************************************************************************)
(* The store as a state machine.  storeLast remembers the action taken     *)
(* last and the document the tokens of the store were loaded from, NoDoc   *)
(* once the tokens were set, added to or cleared.                          *)
(***************************************************************************)
MaxStoreTokens == 2

W3CNode(type, value) == JObj(<< <<"$type", JStr(type)>>, <<"$value", value>> >>)

Described(node, description) ==
    [node EXCEPT !.e = Append(@, <<"$description", JStr(description)>>)]

BrandDoc ==
    JObj(<< <<"brand",
              JObj(<< <<"color", JObj(<< <<"primary",
                            Described(W3CNode("color", JStr("#fff")), "main")>> >>)>>,
                      <<"space", JObj(<< <<"sm",
                            W3CNode("dimension", JStr("8px"))>> >>)>> >>)>> >>)

TypeDoc ==
    JObj(<< <<"type",
              JObj(<< <<"font", JObj(<< <<"body",
                            Described(W3CNode("fontFamily", JStr("Inter")), "body text")>> >>)>> >>)>>,
            <<"brand",
              JObj(<< <<"color", JObj(<< <<"primary",
                            W3CNode("color", JStr("#000"))>> >>)>> >>)>> >>)

NumberDoc ==
    JObj(<< <<"fx",
              JObj(<< <<"opacity", JObj(<< <<"half",
                            W3CNode("number", JNum("0.5"))>> >>)>> >>)>> >>)

StudioTokensDoc ==
    JObj(<< <<"core",
              JObj(<< <<"sm", JObj(<< <<"type", JStr("spacing")>>,
                                      <<"value", JStr("8")>>,
                                      <<"description", JStr("small")>> >>)>> >>)>> >>)

\* a member that is not an object, a colour that is a number, a token at the
\* top level and a link
MixedDoc ==
    JObj(<< <<"version", JStr("1")>>,
            <<"primary", W3CNode("color", JStr("#fff"))>>,
            <<"brand",
              JObj(<< <<"bad", W3CNode("color", JNum("5"))>>,
                      <<"link", W3CNode("color", JStr("{color.primary}"))>> >>)>> >>)

StoreDocs == {BrandDoc, TypeDoc, NumberDoc, StudioTokensDoc, MixedDoc, JNull}

\* the tokens a caller of setTokens or addTokens got from parseTokensFromJSON
ParsedTokens == [d \in StoreDocs |-> parseTokensFromJSON(d)]

NoDoc == JUndef

MaxExports == 2

ExportCalls == 1..MaxExports

\* a call of exportForFigma that was not made, or was made and is forgotten
NotExporting == [pc |-> "idle", tokens |-> <<>>, config |-> Null]

NoExports == [c \in ExportCalls |-> NotExporting]

StoreIdle ==
    /\ store = InitialStore
    /\ storeLast = [op |-> "idle", doc |-> NoDoc]
    /\ exports = NoExports

StoreStart ==
    /\ store = InitialStore
    /\ storeLast = [op |-> "create", doc |-> NoDoc]
    /\ exports = NoExports

SetTokens ==
    /\ \E d \in StoreDocs :
         /\ Len(ParsedTokens[d]) <= MaxStoreTokens
         /\ store' = setTokens(store, ParsedTokens[d])
    /\ storeLast' = [op |-> "setTokens", doc |-> NoDoc]
    /\ UNCHANGED <<exports, notStoreVars>>

AddTokens ==
    /\ \E d \in StoreDocs :
         /\ Len(store.tokens) + Len(ParsedTokens[d]) <= MaxStoreTokens
         /\ store' = addTokens(store, ParsedTokens[d])
    /\ storeLast' = [op |-> "addTokens", doc |-> NoDoc]
    /\ UNCHANGED <<exports, notStoreVars>>

ClearTokens ==
    /\ store' = clearTokens(store)
    /\ storeLast' = [op |-> "clearTokens", doc |-> NoDoc]
    /\ UNCHANGED <<exports, notStoreVars>>

LoadFromJSON ==
    /\ \E d \in StoreDocs :
         /\ Len(ParsedTokens[d]) <= MaxStoreTokens
         /\ store' = loadFromJSON(store, d)
         /\ storeLast' = [op |-> "loadFromJSON", doc |-> d]
    /\ UNCHANGED <<exports, notStoreVars>>

LoadSampleData ==
    /\ \E d \in StoreDocs :
         /\ Len(ParsedTokens[d]) <= MaxStoreTokens
         /\ store' = loadSampleData(store, d)
         /\ storeLast' = [op |-> "loadSampleData", doc |-> d]
    /\ UNCHANGED <<exports, notStoreVars>>

ExportToW3C ==
    /\ store' = exportToW3C(store)
    /\ storeLast' = [storeLast EXCEPT !.op = "exportToW3C"]
    /\ UNCHANGED <<exports, notStoreVars>>

NextStore ==
    \/ SetTokens
    \/ AddTokens
    \/ ClearTokens
    \/ LoadFromJSON
    \/ LoadSampleData
    \/ ExportToW3C

(***************************************************************************)
(* Properties of the store and of the round trip through the W3C builder   *)
(***************************************************************************)
\* the $type, $value and $description at every node of a tree that has a $value,
\* each with the list of keys that leads to it, from entry n of obj on
RECURSIVE Triples(_, _, _)
Triples(obj, path, n) ==
    IF n > Len(obj.e) THEN {}
    ELSE (IF ~IsObject(obj.e[n][2]) THEN {}
          ELSE IF Has(obj.e[n][2], "$value")
          THEN {<<Append(path, obj.e[n][1]), Prop(obj.e[n][2], "$type"),
                  Get(obj.e[n][2], "$value"), Prop(obj.e[n][2], "$description")>>}
          ELSE Triples(obj.e[n][2], Append(path, obj.e[n][1]), 1))
         \cup Triples(obj, path, n + 1)

\* the $type strings of W3CTokenType
W3CTokenTypes ==
    {"color", "dimension", "fontFamily", "fontWeight", "duration", "cubicBezier",
     "number", "string", "border", "shadow", "transition", "gradient", "typography"}

\* a document of the W3C dialect: its tokens lie below the top-level keys and
\* each has a $value and a $type of W3CTokenType, and it has no other leaf
CanonicalDoc(d) ==
    /\ IsObject(d)
    /\ Triples(d, <<>>, 1) # {}
    /\ \A n \in 1..Len(d.e) : IsObject(d.e[n][2]) /\ ~Has(d.e[n][2], "$value")
    /\ \A t \in Triples(d, <<>>, 1) :
         t[2].t = "str" /\ t[2].s \in W3CTokenTypes /\ t[3].t \in {"str", "num"}

\* C6: a W3C document that was loaded and then exported has, at every token path
\* of the document, the $type, $value and $description of the document.
C6_RoundTripReproducesTriples ==
    storeLast.op = "exportToW3C" /\ storeLast.doc # NoDoc /\ CanonicalDoc(storeLast.doc)
    => /\ store.figmaExportResult.success
       /\ Triples(storeLast.doc, <<>>, 1) \subseteq Triples(store.figmaExportResult.json, <<>>, 1)

\* the round trip does hold for the document whose types are color and dimension
C6_ColorAndDimensionRoundTrip ==
    storeLast.op = "exportToW3C" /\ storeLast.doc = BrandDoc
    => Triples(BrandDoc, <<>>, 1) = Triples(store.figmaExportResult.json, <<>>, 1)

\* C8: after loadFromJSON(d) the tokens of the store are exactly the tokens
\* parsed from d and its collections are those organised from these tokens,
\* whatever the store held before.
C8_LoadReplacesTheTokenSet ==
    storeLast.op = "loadFromJSON"
    => /\ store.tokens = parseTokensFromJSON(storeLast.doc)
       /\ store.collections = organizeTokensIntoCollections(store.tokens)

\* a document was loaded over a store that held the tokens of two other
\* documents, put together by addTokens and exported before the load
C8_Witness ==
    /\ storeLast.op = "loadFromJSON"
    /\ storeLast.doc = TypeDoc
    /\ Len(store.tokens) = MaxStoreTokens
    /\ store.figmaExportResult.present
    /\ store.figmaExportResult.tokensCount = 2
    /\ Has(store.figmaExportResult.json, "fx")
    /\ Has(store.figmaExportResult.json, "core")

(***************************************************************************)
(* Calls of the functions that keep no state: call holds the function and  *)
(* its arguments, returned what it returned.                               *)
(***************************************************************************)
NothingCalled == [fn |-> "none"]
NotReturned == [done |-> FALSE]
Return(value) == [done |-> TRUE, value |-> value]

CallIdle ==
    /\ call = NothingCalled
    /\ returned = NotReturned

(***************************************************************************)
(* Scope inference: getScopeForTokenType (lib/scopeUtils) and the scope    *)
(* tables of the import pipeline and of TokenProcessor.                    *)
(***************************************************************************)
\* TokenProcessor.inferScopes(type)
inferScopes(type) ==
    CASE type = "color" -> <<"fill", "stroke", "text">>
      [] type = "dimension" -> <<"width", "height", "gap", "radius">>
      [] type \in {"fontFamily", "fontSize", "fontWeight", "lineHeight", "typography"} ->
            <<"text">>
      [] type = "shadow" -> <<"effect">>
      [] OTHER -> <<>>

\* the types a token may have
TokenTypeSet ==
    {"color", "dimension", "fontFamily", "fontWeight", "typography", "number", "string",
     "boolean", "shadow", "border", "duration", "cubicBezier", "gradient", "unknown"}

\* the types of Token of the store
StoreTokenTypes ==
    {"COLOR", "DIMENSION", "TYPOGRAPHY", "SPACING", "BORDER_RADIUS", "OPACITY", "SHADOW"}

ScopeJsonTypes == {"", "color", "fontFamily", "composition"}
ScopeTokenNames == {"", "font-size", "primary"}

ScopeCalls ==
    {[fn |-> "getScopeForTokenType", type |-> t, jsonType |-> j, name |-> n] :
        t \in TokenTypeSet \cup StoreTokenTypes, j \in ScopeJsonTypes, n \in ScopeTokenNames}
    \cup {[fn |-> f, type |-> t, jsonType |-> "", name |-> ""] :
            f \in {"getDefaultScopes", "inferScopes"}, t \in TokenTypeSet}

ScopeStart ==
    /\ call \in ScopeCalls
    /\ returned = NotReturned

CallGetScopeForTokenType ==
    /\ call.fn = "getScopeForTokenType"
    /\ ~returned.done
    /\ returned' = Return(getScopeForTokenType(call.type, call.jsonType, call.name))
    /\ UNCHANGED <<call, notCallVars>>

CallGetDefaultScopes ==
    /\ call.fn = "getDefaultScopes"
    /\ ~returned.done
    /\ returned' = Return(getDefaultScopes(call.type))
    /\ UNCHANGED <<call, notCallVars>>

CallInferScopes ==
    /\ call.fn = "inferScopes"
    /\ ~returned.done
    /\ returned' = Return(inferScopes(call.type))
    /\ UNCHANGED <<call, notCallVars>>

NextScope ==
    \/ CallGetScopeForTokenType
    \/ CallGetDefaultScopes
    \/ CallInferScopes

ScopeFunctions == {"getScopeForTokenType", "getDefaultScopes", "inferScopes"}

\* C14: for every type of the token type set and every token name, each of
\* getScopeForTokenType, getDefaultScopes and inferScopes returns a list of
\* scopes that is not empty.
C14_ScopeInferenceIsNeverEmpty ==
    (returned.done /\ call.fn \in ScopeFunctions /\ call.type \in TokenTypeSet)
        => Len(returned.value) > 0

\* the same for the two functions that end in a fallback
C14_FallbackScopesAreNeverEmpty ==
    (returned.done /\ call.fn \in {"getScopeForTokenType", "getDefaultScopes"})
        => Len(returned.value) > 0

(***************************************************************************)
(* Mode extraction: W3CExportBuilder.extractModesFromTokens and            *)
(* FigmaExportEngine.detectThemes.  A token is handed over with the value  *)
(* its maker gave it: a string, or a map from mode names to values.  A Set *)
(* is the list of its members in insertion order.                          *)
(***************************************************************************)
WordChars == UpperLetters \o LowerLetters \o Digits \o "_"

\* the segment, lower-cased, is one of the names or matches theme-\w+
IsModeName(lowered, names) ==
    \/ lowered \in names
    \/ /\ StartsWith(lowered, "theme-")
       /\ Len(lowered) > 6
       /\ \A i \in 7..Len(lowered) : Includes(WordChars, Char(lowered, i))

\* the segments of a dotted text that have a dot on either side and are mode names
ModeSegments(segments, names) ==
    {i \in 2..(Len(segments) - 1) : IsModeName(ToLowerCase(segments[i]), names)}

\* text.match(/\.(names|theme-\w+)\./i): the group of the first match,
\* lower-cased, "" when there is none
FirstModeFound(segments, hits) ==
    IF hits = {} THEN ""
    ELSE ToLowerCase(segments[CHOOSE i \in hits : \A j \in hits : i <= j])

FirstModeIn(text, names) ==
    FirstModeFound(Split(text, "."), ModeSegments(Split(text, "."), names))

\* the same for the match a greedy [^}]* leaves: the last one
LastModeFound(segments, hits) ==
    IF hits = {} THEN ""
    ELSE ToLowerCase(segments[CHOOSE i \in hits : \A j \in hits : j <= i])

LastModeIn(text, names) ==
    LastModeFound(Split(text, "."), ModeSegments(Split(text, "."), names))

\* modes.add(mode)
AddTo(modes, mode) ==
    IF mode = "" \/ \E i \in 1..Len(modes) : modes[i] = mode THEN modes
    ELSE Append(modes, mode)

RECURSIVE AddAll(_, _)
AddAll(modes, more) ==
    IF Len(more) = 0 THEN modes ELSE AddAll(AddTo(modes, more[1]), Tail(more))

PathModeNames == {"light", "dark", "mobile", "desktop"}
KeyModeNames == {"light", "dark", "mobile", "desktop", "default", "base"}
ThemeNames == {"light", "dark"}

\* value.match(/\{[^}]*\.(light|dark|mobile|desktop|theme-\w+)\.[^}]*\}/i): the
\* group of the match, "" when there is none
RECURSIVE AliasMode(_, _)
AliasMode(value, from) ==
    IF from > Len(value) THEN ""
    ELSE IF Char(value, from) # "{" \/ IndexOf(SubSeq(value, from, Len(value)), "}") = 0
    THEN AliasMode(value, from + 1)
    ELSE IF LastModeIn(SubSeq(value, from + 1,
                              from + IndexOf(SubSeq(value, from, Len(value)), "}") - 2),
                       PathModeNames) # ""
    THEN LastModeIn(SubSeq(value, from + 1,
                           from + IndexOf(SubSeq(value, from, Len(value)), "}") - 2),
                    PathModeNames)
    ELSE AliasMode(value, from + 1)

\* the keys of a value map that are theme keys, lower-cased
RECURSIVE ThemeKeys(_, _)
ThemeKeys(value, n) ==
    IF n > Len(value.e) THEN <<>>
    ELSE (IF IsModeName(ToLowerCase(value.e[n][1]), KeyModeNames)
          THEN <<ToLowerCase(value.e[n][1])>> ELSE <<>>)
         \o ThemeKeys(value, n + 1)

\* extractModesFromTokens: the body of tokens.forEach for one token
ModesOfToken(modes, token) ==
    AddTo(AddAll(AddTo(modes, FirstModeIn(token.path, PathModeNames)),
                 IF IsObjectLike(token.value) THEN ThemeKeys(token.value, 1) ELSE <<>>),
          IF token.value.t = "str" /\ isAliasReference(token.value.s)
          THEN AliasMode(token.value.s, 1) ELSE "")

RECURSIVE ModesFrom(_, _, _)
ModesFrom(toks, n, modes) ==
    IF n > Len(toks) THEN modes ELSE ModesFrom(toks, n + 1, ModesOfToken(modes, toks[n]))

DefaultIfNone(modes) == IF Len(modes) = 0 THEN <<"default">> ELSE modes

\* extractModesFromTokens(tokens)
extractModesFromTokens(toks) == DefaultIfNone(ModesFrom(toks, 1, <<>>))

\* value.match(/\{([^}]+)\}/g): the texts between the braces
RECURSIVE BraceGroups(_)
NextGroup(value, open, close) ==
    IF close = 0 THEN <<>>
    ELSE IF close = 2 THEN BraceGroups(SubSeq(value, open + 1, Len(value)))
    ELSE <<SubSeq(value, open + 1, open + close - 2)>>
         \o BraceGroups(SubSeq(value, open + close, Len(value)))

BraceGroups(value) ==
    IF IndexOf(value, "{") = 0 THEN <<>>
    ELSE NextGroup(value, IndexOf(value, "{"),
                   IndexOf(SubSeq(value, IndexOf(value, "{"), Len(value)), "}"))

\* detectThemes: the themes the aliases of one value name
RECURSIVE AliasThemes(_)
AliasThemes(groups) ==
    IF Len(groups) = 0 THEN <<>>
    ELSE <<FirstModeIn(groups[1], ThemeNames)>> \o AliasThemes(Tail(groups))

\* detectThemes: the body of tokens.forEach for one token whose value is a string
ThemesOfToken(themes, token) ==
    AddAll(AddTo(themes, FirstModeIn(token.path, ThemeNames)),
           IF Includes(token.value.s, "{") /\ Includes(token.value.s, "}")
           THEN AliasThemes(BraceGroups(token.value.s)) ELSE <<>>)

RECURSIVE ThemesFrom(_, _, _)
ThemesFrom(toks, n, themes) ==
    IF n > Len(toks) THEN themes ELSE ThemesFrom(toks, n + 1, ThemesOfToken(themes, toks[n]))

ThemeDetection(themes) == [thrown |-> FALSE, hasThemes |-> Len(themes) > 0, themes |-> themes]

\* token.value.includes is not a function when the value is a map
ThemeDetectionThrows == [thrown |-> TRUE, hasThemes |-> FALSE, themes |-> <<>>]

\* detectThemes(tokens) (themeStructure is left out)
detectThemes(toks) ==
    IF \E n \in 1..Len(toks) : toks[n].value.t = "obj" THEN ThemeDetectionThrows
    ELSE ThemeDetection(ThemesFrom(toks, 1, <<>>))

\* createModes: the themes the modes are made for, default when there is none
createModes(themeDetection) ==
    IF themeDetection.hasThemes /\ Len(themeDetection.themes) > 0
    THEN themeDetection.themes ELSE <<"default">>

MaxModeTokens == 2

ModeToken(path, value) == [path |-> path, value |-> value]

ModeMap(keys) == JObj([n \in 1..Len(keys) |-> <<keys[n], JStr("#fff")>>])

ModeTokenPool ==
    {ModeToken("color.bg", ModeMap(<<"light", "dark">>)),
     ModeToken("color.fg", ModeMap(<<"Light", "Dark", "default">>)),
     ModeToken("color.light.bg", JStr("#fff")),
     ModeToken("size.mobile.gap", JStr("8px")),
     ModeToken("color.link", JStr("{theme.light.a.dark.link} {x}")),
     ModeToken("color.plain", JStr("#123"))}

ModeTokenLists(k) == [1..k -> ModeTokenPool]

ModesStart ==
    /\ \E k \in 1..MaxModeTokens :
         \E toks \in ModeTokenLists(k), f \in {"extractModesFromTokens", "detectThemes"} :
            call = [fn |-> f, tokens |-> toks]
    /\ returned = NotReturned

CallExtractModesFromTokens ==
    /\ call.fn = "extractModesFromTokens"
    /\ ~returned.done
    /\ returned' = [done |-> TRUE, thrown |-> FALSE,
                    modes |-> extractModesFromTokens(call.tokens)]
    /\ UNCHANGED <<call, notCallVars>>

\* transformTokensForFigma up to the modes of its collections
CallDetectThemes ==
    /\ call.fn = "detectThemes"
    /\ ~returned.done
    /\ returned' = [done |-> TRUE, thrown |-> detectThemes(call.tokens).thrown,
                    modes |-> createModes(detectThemes(call.tokens))]
    /\ UNCHANGED <<call, notCallVars>>

NextModes ==
    \/ CallExtractModesFromTokens
    \/ CallDetectThemes

Members(seq) == {seq[i] : i \in 1..Len(seq)}

\* the token carries a value map with the keys light and dark
HasLightDarkMap(token) ==
    /\ token.value.t = "obj"
    /\ Has(token.value, "light")
    /\ Has(token.value, "dark")

\* a mode signal fires for the token: a mode in its path, a theme key other
\* than default in its value map, or a mode in an alias it refers to
ModeSignal(token) ==
    \/ FirstModeIn(token.path, PathModeNames) # ""
    \/ token.value.t = "obj" /\ Members(ThemeKeys(token.value, 1)) \ {"default"} # {}
    \/ token.value.t = "str" /\ AliasMode(token.value.s, 1) # ""

ModeCallDone ==
    /\ returned.done
    /\ call.fn \in {"extractModesFromTokens", "detectThemes"}

\* C15: when a token of the list carries a value map with the keys light and
\* dark the modes extracted are exactly light and dark, and default is among
\* the modes extracted only when no mode signal fires for any token.
C15_LightDarkMapGivesLightAndDark ==
    ModeCallDone =>
        /\ (\E n \in 1..Len(call.tokens) : HasLightDarkMap(call.tokens[n]))
              => ~returned.thrown /\ Members(returned.modes) = {"light", "dark"}
        /\ (~returned.thrown /\ "default" \in Members(returned.modes))
              => \A n \in 1..Len(call.tokens) : ~ModeSignal(call.tokens[n])

\* what does hold for extractModesFromTokens: light and dark are among the
\* modes of a list with such a map
C15_LightDarkMapIncludesLightAndDark ==
    (/\ returned.done
     /\ call.fn = "extractModesFromTokens"
     /\ \E n \in 1..Len(call.tokens) : HasLightDarkMap(call.tokens[n]))
        => {"light", "dark"} \subseteq Members(returned.modes)

(***************************************************************************)
(* FigmaExportEngine (lib/figmaExport): the tokens of the store as Figma   *)
(* collections, modes and variables.  generateId appends a random suffix   *)
(* to its prefix: the ids of one call differ from one another, here by the *)
(* position of the token in its collection.                                *)
(***************************************************************************)
\* mapToFigmaType(tokenType)
mapToFigmaType(tokenType) ==
    CASE tokenType = "COLOR" -> "COLOR"
      [] tokenType \in {"DIMENSION", "SPACING", "BORDER_RADIUS", "OPACITY"} -> "FLOAT"
      [] tokenType \in {"TYPOGRAPHY", "SHADOW"} -> "STRING"
      [] OTHER -> "STRING"

\* mapToFigmaScopes(tokenType) over the table of initializeScopeMappings
mapToFigmaScopes(tokenType) ==
    CASE tokenType = "COLOR" -> <<"ALL_SCOPES">>
      [] tokenType = "DIMENSION" -> <<"WIDTH_HEIGHT", "GAP">>
      [] tokenType = "BORDER_RADIUS" -> <<"CORNER_RADIUS">>
      [] tokenType = "SPACING" -> <<"GAP">>
      [] tokenType = "TYPOGRAPHY" -> <<"TEXT_CONTENT">>
      [] tokenType = "OPACITY" -> <<"OPACITY">>
      [] tokenType = "SHADOW" -> <<"EFFECT_COLOR">>
      [] OTHER -> <<"ALL_SCOPES">>

\* isAliasToken(value)
isAliasToken(value) == Includes(value, "{") /\ Includes(value, "}")

\* FigmaExportEngine.extractAliasTarget(value)
FirstGroup(groups) == IF Len(groups) = 0 THEN Undefined ELSE groups[1]

figmaExtractAliasTarget(value) == FirstGroup(BraceGroups(value))

\* transformTokenToFigmaVariable(token, collectionName, collectionId); n is the
\* position of the token in its collection
transformTokenToFigmaVariable(token, collectionName, collectionId, n) ==
    [id |-> "var-" \o token.path \o "-" \o ToString(n),
     name |-> token.name,
     type |-> mapToFigmaType(token.type),
     scopes |-> mapToFigmaScopes(token.type),
     description |-> token.description,
     resolvedType |-> token.type,
     collection |-> collectionName,
     collectionId |-> collectionId,
     originalToken |-> token,
     isAlias |-> isAliasToken(token.value),
     aliasTarget |-> IF isAliasToken(token.value)
                     THEN figmaExtractAliasTarget(token.value) ELSE Undefined]

\* resolveAlias(aliasPath, context): the value, Undefined for a circular
\* reference or a target the map does not have
RECURSIVE resolveAlias(_, _, _)
ResolvedFrom(token, toks, stack) ==
    IF isAliasToken(token.value) /\ figmaExtractAliasTarget(token.value) # Undefined
    THEN resolveAlias(figmaExtractAliasTarget(token.value), toks, stack)
    ELSE token.value

resolveAlias(aliasPath, toks, stack) ==
    IF \E i \in 1..Len(stack) : stack[i] = aliasPath THEN Undefined
    ELSE IF TokenWithPath(toks, aliasPath) = 0 THEN Undefined
    ELSE ResolvedFrom(toks[TokenWithPath(toks, aliasPath)], toks, Append(stack, aliasPath))

\* FigmaExportEngine.resolveAliases: context.resolvedValues when the loop has
\* ended; the context is local and nothing reads it afterwards
RECURSIVE figmaResolveAliases(_, _, _)
figmaResolveAliases(figmaVariables, toks, n) ==
    IF n > Len(figmaVariables) THEN <<>>
    ELSE (IF /\ figmaVariables[n].isAlias
             /\ figmaVariables[n].aliasTarget \notin {Undefined, ""}
             /\ resolveAlias(figmaVariables[n].aliasTarget, toks, <<>>) # Undefined
          THEN << <<figmaVariables[n].id,
                    resolveAlias(figmaVariables[n].aliasTarget, toks, <<>>)>> >>
          ELSE <<>>)
         \o figmaResolveAliases(figmaVariables, toks, n + 1)

\* theme.charAt(0).toUpperCase() + theme.slice(1)
Capitalized(theme) == ToUpperCase(SubSeq(theme, 1, 1)) \o SubSeq(theme, 2, Len(theme))

\* populateModeValues for one mode: mode.variables[variable.id] = originalToken.value
ModeVariables(figmaVariables) ==
    [n \in 1..Len(figmaVariables) |->
        <<figmaVariables[n].id, figmaVariables[n].originalToken.value>>]

\* createModes and populateModeValues: the modes of a collection
populateModeValues(themes, figmaVariables) ==
    [m \in 1..Len(themes) |->
        [id |-> "mode-" \o themes[m],
         name |-> Capitalized(themes[m]),
         variables |-> ModeVariables(figmaVariables)]]

\* transformCollection once the variables are made
CollectionOf(collectionName, themeDetection, figmaVariables) ==
    [id |-> "collection-" \o collectionName,
     name |-> collectionName,
     modes |-> populateModeValues(createModes(themeDetection), figmaVariables),
     defaultModeId |-> "mode-" \o createModes(themeDetection)[1],
     variables |-> figmaVariables]

\* transformCollection(collectionName, tokens, themeDetection, config)
transformCollection(collectionName, toks, themeDetection, config) ==
    CollectionOf(collectionName, themeDetection,
                 [n \in 1..Len(toks) |->
                     transformTokenToFigmaVariable(toks[n], collectionName,
                                                   "collection-" \o collectionName, n)])

\* transformTokensForFigma: the loop over the collection groups from group n on
RECURSIVE FigmaCollections(_, _, _, _)
FigmaCollections(groups, n, themeDetection, config) ==
    IF n > Len(groups) THEN <<>>
    ELSE (IF Len(config.collections) > 0
             /\ ~\E i \in 1..Len(config.collections) : config.collections[i] = groups[n].name
          THEN <<>>
          ELSE <<transformCollection(groups[n].name, groups[n].tokens,
                                     themeDetection, config)>>)
         \o FigmaCollections(groups, n + 1, themeDetection, config)

RECURSIVE SumOf(_, _)
SumOf(collections, field) ==
    IF Len(collections) = 0 THEN 0
    ELSE Len(collections[1][field]) + SumOf(Tail(collections), field)

FigmaSuccess(collections) ==
    [success |-> TRUE, collections |-> collections,
     totalVariables |-> SumOf(collections, "variables"),
     totalModes |-> SumOf(collections, "modes"), errors |-> <<>>]

FigmaFailure(message) ==
    [success |-> FALSE, collections |-> <<>>, totalVariables |-> 0, totalModes |-> 0,
     errors |-> <<message>>]

\* the tokens as detectThemes reads them: the value of a Token is a string
WithStringValues(toks) ==
    [n \in 1..Len(toks) |-> [path |-> toks[n].path, value |-> JStr(toks[n].value)]]

\* transformTokensForFigma(tokens, config) (the time of the export is left out)
transformTokensForFigma(toks, config) ==
    IF detectThemes(WithStringValues(toks)).thrown
    THEN FigmaFailure("token.value.includes is not a function")
    ELSE FigmaSuccess(FigmaCollections(GroupTokens(toks, 1, <<>>, "Default"), 1,
                                       detectThemes(WithStringValues(toks)), config))

MaxFigmaTokens == 3

FigmaToken(path, value, collection) ==
    StoreToken(path, path, "COLOR", value, collection, JUndef)

FigmaTokenPool ==
    {FigmaToken("color.primary", "#fff", "brand"),
     FigmaToken("color.link", "{color.primary}", "brand"),
     FigmaToken("color.hover", "{color.link}", "brand"),
     FigmaToken("color.loop", "{color.loop}", "brand"),
     FigmaToken("theme.dark.bg", "{color.primary}", ""),
     FigmaToken("theme.light.bg", "{color.none}", "")}

FigmaTokenLists(k) == [1..k -> FigmaTokenPool]

FigmaConfigs ==
    {[collections |-> <<>>, includeAliases |-> TRUE, resolveAliases |-> TRUE],
     [collections |-> <<"brand">>, includeAliases |-> TRUE, resolveAliases |-> FALSE]}

FigmaStart ==
    /\ \E k \in 1..MaxFigmaTokens :
         \E toks \in FigmaTokenLists(k), config \in FigmaConfigs :
            call = [fn |-> "transformTokensForFigma", tokens |-> toks, config |-> config]
    /\ returned = NotReturned

CallTransformTokensForFigma ==
    /\ call.fn = "transformTokensForFigma"
    /\ ~returned.done
    /\ returned' = Return(transformTokensForFigma(call.tokens, call.config))
    /\ UNCHANGED <<call, notCallVars>>

NextFigma == CallTransformTokensForFigma

\* mode.variables[id]
ModeValue(mode, id) ==
    mode.variables[CHOOSE n \in 1..Len(mode.variables) : mode.variables[n][1] = id][2]

\* the variable comes from an alias token whose target is a token of the call
\* and resolves to a value
AliasWithTarget(variable) ==
    /\ variable.isAlias
    /\ variable.aliasTarget # Undefined
    /\ resolveAlias(variable.aliasTarget, call.tokens, <<>>) # Undefined

FigmaDone == returned.done /\ call.fn = "transformTokensForFigma"

\* C16: with resolveAliases set, every variable made from an alias token whose
\* target exists has, in every mode of its collection, the value its target
\* resolves to, which is no alias, and keeps the reference in aliasTarget.
C16_AliasVariablesCarryResolvedValues ==
    (FigmaDone /\ call.config.resolveAliases) =>
        \A c \in 1..Len(returned.value.collections) :
            \A v \in 1..Len(returned.value.collections[c].variables) :
                AliasWithTarget(returned.value.collections[c].variables[v]) =>
                    /\ returned.value.collections[c].variables[v].aliasTarget
                         = figmaExtractAliasTarget(
                             returned.value.collections[c].variables[v].originalToken.value)
                    /\ \A m \in 1..Len(returned.value.collections[c].modes) :
                         /\ ModeValue(returned.value.collections[c].modes[m],
                                      returned.value.collections[c].variables[v].id)
                              = resolveAlias(
                                  returned.value.collections[c].variables[v].aliasTarget,
                                  call.tokens, <<>>)
                         /\ ~isAliasToken(
                                ModeValue(returned.value.collections[c].modes[m],
                                          returned.value.collections[c].variables[v].id))

\* what the code does: every variable has, in every mode, the value of its
\* token as it is written, and an alias variable keeps its reference
C16_ModesCarryTheTokenValue ==
    FigmaDone =>
        \A c \in 1..Len(returned.value.collections) :
            \A v \in 1..Len(returned.value.collections[c].variables) :
                \A m \in 1..Len(returned.value.collections[c].modes) :
                    ModeValue(returned.value.collections[c].modes[m],
                              returned.value.collections[c].variables[v].id)
                        = returned.value.collections[c].variables[v].originalToken.value

(***************************************************************************)
(* Alias resolution over the tokens of a loaded document: the alias        *)
(* utilities are handed the tokens loadFromJSON put into the store, which  *)
(* are parseTokensFromJSON of the document.                                *)
(***************************************************************************)
MaxGroups == 2

GroupKeys == <<"brand", "base", "core", "deep">>

\* the entry <<key, value>> below the groups
RECURSIVE Nested(_, _)
Nested(groups, entry) ==
    IF Len(groups) = 0 THEN entry
    ELSE <<groups[1], JObj(<<Nested(Tail(groups), entry)>>)>>

\* the alias as the document writes it: the full document path of the target,
\* its path below the top-level key, or its name
ReferenceText(kind, top, groups, name) ==
    CASE kind = "full" -> JoinDots(<<top>> \o groups \o <<name>>)
      [] kind = "path" -> JoinDots(groups \o <<name>>)
      [] OTHER -> name

AccentNode(kind, top, groups, name) ==
    W3CNode("color", JStr("{" \o ReferenceText(kind, top, groups, name) \o "}"))

\* a document with the token name below top and groups, and the token accent
\* that refers to it, in the same top-level key or in one of its own
LoadedDoc(kind, top, groups, name, own) ==
    IF own
    THEN JObj(<< <<top, JObj(<<Nested(groups, <<name, W3CNode("color", JStr("#3B82F6"))>>)>>)>>,
                 <<"semantic", JObj(<< <<"accent", AccentNode(kind, top, groups, name)>> >>)>> >>)
    ELSE JObj(<< <<top, JObj(<<Nested(groups, <<name, W3CNode("color", JStr("#3B82F6"))>>),
                               <<"accent", AccentNode(kind, top, groups, name)>> >>)>> >>)

LoadedDocs ==
    {LoadedDoc(kind, top, SubSeq(GroupKeys, 1, g), name, own) :
        kind \in {"full", "path", "name"}, top \in {"colors", "theme"},
        g \in 0..MaxGroups, name \in {"primary", "blue-500"}, own \in BOOLEAN}

LoadedStart ==
    /\ tokens \in {parseTokensFromJSON(d) : d \in LoadedDocs}
    /\ lastIndex = 0
    /\ aliasCall = NoCall
    /\ aliasOut = [found |-> FALSE]

NextLoaded ==
    \/ CallGetResolvedTokenValue
    \/ CallValidateTokenAliases

\* token i is an alias written as the full document path of token u: its
\* top-level key, then its groups, then its name
FullPathAlias(i, u) ==
    /\ tokens[i].value = "{" \o tokens[u].collection \o "." \o tokens[u].path \o "}"
    /\ ~Includes(tokens[u].value, "{")

\* C17: an alias written as the full document path of a token that is no alias
\* resolves, over the tokens of the loaded document, to the value of that
\* token, and is flagged neither unresolved nor circular.
C17_FullPathAliasResolves ==
    \A i, u \in 1..Len(tokens) :
        FullPathAlias(i, u) =>
            /\ (aliasCall.op = "getResolvedTokenValue" /\ aliasCall.token = i
                 /\ aliasCall.liBefore = 0)
                    => aliasOut.value = tokens[u].value /\ ~aliasOut.isCircular
            /\ (aliasCall.op = "validateTokenAliases" /\ aliasCall.liBefore = 0)
                    => \E n \in 1..Len(aliasOut.results) :
                          /\ aliasOut.results[n].token = i
                          /\ ~aliasOut.results[n].hasUnresolved

\* the same for a target that lies directly below its top-level key: the key
\* collection.name of the token map is then its full document path
C17_AliasOfDirectChildResolves ==
    \A i, u \in 1..Len(tokens) :
        (FullPathAlias(i, u) /\ tokens[u].path = tokens[u].name) =>
            /\ (aliasCall.op = "getResolvedTokenValue" /\ aliasCall.token = i
                 /\ aliasCall.liBefore = 0)
                    => aliasOut.value = tokens[u].value /\ ~aliasOut.isCircular
            /\ (aliasCall.op = "validateTokenAliases" /\ aliasCall.liBefore = 0)
                    => \E n \in 1..Len(aliasOut.results) :
                          /\ aliasOut.results[n].token = i
                          /\ ~aliasOut.results[n].hasUnresolved

(***************************************************************************)
(* TokenUtils (js-old/utils.js): the conversion of a Token Studio document *)
(* to the W3C form.                                                        *)
(***************************************************************************)
\* TokenUtils.mapTokenStudioType: typeMap[tokenStudioType] || 'string'
tokenUtilsMapTokenStudioType(tokenStudioType) ==
    CASE tokenStudioType.t # "str" -> "string"
      [] tokenStudioType.s \in {"spacing", "dimension", "size", "fontSize", "letterSpacing",
                                "borderRadius"} -> "dimension"
      [] tokenStudioType.s = "lineHeight" -> "number"
      [] tokenStudioType.s \in {"color", "fontFamily", "fontWeight", "typography", "shadow",
                                "border", "duration", "string", "number", "boolean"} ->
            tokenStudioType.s
      [] OTHER -> "string"

\* convertTokenStudioValue, case typography: the members copied, two with px
TypographyMember(value, key, suffix) ==
    IF Truthy(Prop(value, key))
    THEN << <<key, IF suffix = "" THEN Get(value, key)
                   ELSE JStr(TemplateText(Get(value, key)) \o suffix)>> >>
    ELSE <<>>

ConvertedTypography(value) ==
    JObj(TypographyMember(value, "fontFamily", "")
         \o TypographyMember(value, "fontWeight", "")
         \o TypographyMember(value, "fontSize", "px")
         \o TypographyMember(value, "lineHeight", "")
         \o TypographyMember(value, "letterSpacing", "px"))

\* TokenUtils.convertTokenStudioValue(value, type)
convertTokenStudioValue(value, type) ==
    IF type.t # "str" THEN value
    ELSE IF type.s \in {"spacing", "dimension", "fontSize", "borderRadius"}
    THEN (IF value.t = "str" /\ IsNumberText(value.s)
          THEN JStr(value.s \o "px") ELSE value)
    ELSE IF type.s = "typography"
    THEN (IF value.t = "null"
          THEN Thrown("Cannot read properties of null (reading 'fontFamily')")
          ELSE IF IsObjectLike(value) THEN ConvertedTypography(value)
          ELSE value)
    ELSE value

\* convertTokenStudioGroup: the token object returned for a token
ConvertedToken(type, value, description) ==
    IF value.t = "throw" THEN value
    ELSE JObj(<< <<"$type", JStr(type)>>, <<"$value", value>> >>
              \o (IF Truthy(description) THEN << <<"$description", description>> >>
                  ELSE <<>>))

\* TokenUtils.convertTokenStudioGroup(obj); ConvertedGroup is its forEach over
\* the keys of a group, from key n on
RECURSIVE convertTokenStudioGroup(_)
RECURSIVE ConvertedGroup(_, _, _)
ConvertedGroup(obj, n, converted) ==
    IF converted.t = "throw" \/ n > Len(obj.e) THEN converted
    ELSE ConvertedGroup(obj, n + 1,
                        Descend(converted, obj.e[n][1], convertTokenStudioGroup(obj.e[n][2])))

convertTokenStudioGroup(obj) ==
    IF ~IsObjectLike(obj) THEN obj
    ELSE IF Truthy(Prop(obj, "type")) /\ Has(obj, "value")
    THEN ConvertedToken(tokenUtilsMapTokenStudioType(Get(obj, "type")),
                        convertTokenStudioValue(Get(obj, "value"), Get(obj, "type")),
                        Prop(obj, "description"))
    ELSE ConvertedGroup(obj, 1, JObj(<<>>))

StudioTypes ==
    {"spacing", "dimension", "fontSize", "borderRadius", "color", "typography", "sizing"}

StudioValues ==
    {JStr("8"), JStr("1.5"), JStr("8px"), JStr(".5"), JStr("{a.b}"), JNum("8"), JNull,
     JObj(<< <<"fontFamily", JStr("Inter")>>, <<"fontSize", JStr("16")>> >>)}

StudioNode(type, value, description) ==
    JObj(<< <<"type", JStr(type)>>, <<"value", value>> >>
         \o (IF description = "" THEN <<>> ELSE << <<"description", JStr(description)>> >>))

\* a token, alone or as the only member of a group
StudioObjects ==
    {IF grouped THEN JObj(<< <<"sm", StudioNode(type, value, description)>> >>)
     ELSE StudioNode(type, value, description) :
        type \in StudioTypes, value \in StudioValues, description \in {"", "small"},
        grouped \in BOOLEAN}

StudioStart ==
    /\ \E obj \in StudioObjects : call = [fn |-> "convertTokenStudioGroup", obj |-> obj]
    /\ returned = NotReturned

CallConvertTokenStudioGroup ==
    /\ call.fn = "convertTokenStudioGroup"
    /\ ~returned.done
    /\ returned' = Return(convertTokenStudioGroup(call.obj))
    /\ UNCHANGED <<call, notCallVars>>

NextStudio == CallConvertTokenStudioGroup

\* the token of the Token Studio document of the import pipeline
SpacingSm == Get(Get(StudioDoc, "spacing"), "sm")

\* C18: the token with type spacing and value "8" becomes the value "8px" with
\* the type dimension, through TokenUtils.convertTokenStudioGroup and through
\* the preprocessing stage of a call that detected the format token-studio.
C18_SpacingEightBecomesEightPx ==
    /\ Prop(convertTokenStudioGroup(SpacingSm), "$value") = JStr("8px")
    /\ Prop(convertTokenStudioGroup(SpacingSm), "$type") = JStr("dimension")
    /\ \A c \in Calls :
          (/\ execs[c].ctx.rawData.json = StudioDoc
           /\ execs[c].ctx.formatInfo.format = "token-studio"
           /\ Len(execs[c].ctx.flatTokens) > 0)
              => \A n \in 1..Len(execs[c].ctx.flatTokens) :
                    /\ execs[c].ctx.flatTokens[n].value = JStr("8px")
                    /\ execs[c].ctx.flatTokens[n].type = "dimension"

\* the half that holds: convertTokenStudioGroup gives a token of one of the
\* four dimension types with a plain number as its value the unit px and the
\* type dimension
C18_TokenUtilsAddsTheUnit ==
    (/\ returned.done
     /\ call.fn = "convertTokenStudioGroup"
     /\ Has(call.obj, "type")
     /\ Get(call.obj, "type").s \in {"spacing", "dimension", "fontSize", "borderRadius"}
     /\ Get(call.obj, "value") \in {JStr("8"), JStr("1.5")})
        => /\ Get(returned.value, "$value") = JStr(Get(call.obj, "value").s \o "px")
           /\ Get(returned.value, "$type") = JStr("dimension")

(***************************************************************************)
(* The types of the tokens an import returns.                              *)
(***************************************************************************)
\* the tokens and the variables a successful call returned
ResultTypes(c) ==
    {execs[c].ret.results.variables[n].type :
        n \in 1..Len(execs[c].ret.results.variables)}
    \cup {execs[c].ret.results.tokens[n].type :
            n \in 1..Len(execs[c].ret.results.tokens)}

\* C19: after a successful import the type of every token of the result is a
\* member of the closed token type set.
C19_ResultTypesAreInTheTypeSet ==
    \A c \in Calls :
        (Settled(c) /\ execs[c].ret.success) => ResultTypes(c) \subseteq TokenTypeSet

\* what does hold: no token of a successful result is left without a type
C19_ResultTypesAreNeverEmpty ==
    \A c \in Calls :
        (Settled(c) /\ execs[c].ret.success) => ResultTypes(c) \cap {"", Undefined} = {}

(***************************************************************************)
(* The paths of the tokens of the store.                                   *)
(***************************************************************************)
\* no two tokens of the list have the same collection and the same path
UniquePaths(toks) ==
    \A i, j \in 1..Len(toks) :
        (toks[i].collection = toks[j].collection /\ toks[i].path = toks[j].path) => i = j

\* C20: whatever loadFromJSON, loadSampleData, setTokens and addTokens were
\* called with parsed tokens, no two tokens of the store have the same
\* collection and the same path.
C20_PathsAreUniquePerCollection == UniquePaths(store.tokens)

\* what does hold: the tokens are unique right after a document, none of whose
\* keys holds a dot, was loaded
C20_LoadedPathsAreUnique ==
    storeLast.op \in {"loadFromJSON", "loadSampleData"} => UniquePaths(store.tokens)

(***************************************************************************)
(* The $type of the W3C export, beside the mapping the export test has.    *)
(***************************************************************************)
\* mapToW3CType of the export test: mapping[tokenType] || 'string'
testMapToW3CType(tokenType) ==
    CASE tokenType = "COLOR" -> "color"
      [] tokenType \in {"DIMENSION", "SPACING", "BORDER_RADIUS"} -> "dimension"
      [] tokenType = "TYPOGRAPHY" -> "fontFamily"
      [] tokenType = "OPACITY" -> "number"
      [] tokenType = "SHADOW" -> "shadow"
      [] OTHER -> "string"

\* the types of Token, and some a Token is not meant to have
ExportedTypes ==
    StoreTokenTypes \cup {"FONT_FAMILY", "borderRadius", "NUMBER", "Color", "unknown"}

ExportedValues == {"#fff", "8", "8px", "0.5", "{a.b}"}

ExportedTokens ==
    {StoreToken("sm", "core.sm", type, value, "brand", description) :
        type \in ExportedTypes, value \in ExportedValues,
        description \in {JUndef, JStr("small")}}

TypeMapStart ==
    /\ \E token \in ExportedTokens : call = [fn |-> "buildW3CToken", token |-> token]
    /\ returned = NotReturned

CallBuildW3CToken ==
    /\ call.fn = "buildW3CToken"
    /\ ~returned.done
    /\ returned' = Return(buildW3CToken(call.token))
    /\ UNCHANGED <<call, notCallVars>>

NextTypeMap == CallBuildW3CToken

\* C21: the $type buildW3CToken writes for a token is the type the mapping of
\* the export test gives for the type of the token: color, dimension,
\* fontFamily for TYPOGRAPHY, number, shadow, and string for any other type.
C21_ExportedTypeIsTheTestMapping ==
    (returned.done /\ call.fn = "buildW3CToken")
        => Get(returned.value, "$type") = JStr(testMapToW3CType(call.token.type))

\* what does hold: the two mappings agree on the types of Token other than
\* TYPOGRAPHY
C21_ExportedTypeOfTheOtherTypes ==
    (/\ returned.done
     /\ call.fn = "buildW3CToken"
     /\ call.token.type \in StoreTokenTypes \ {"TYPOGRAPHY"})
        => Get(returned.value, "$type") = JStr(testMapToW3CType(call.token.type))

(***************************************************************************)
(* The lookup of resolveAliases over tokens whose keys in the token map    *)
(* meet: a path that is the name of another token, the collection.name of  *)
(* another, or the dashed or underscored path of another.                  *)
(***************************************************************************)
MaxLookupTokens == 3

LookupToken(path, name, collection, value) ==
    [name |-> name, path |-> path, type |-> "COLOR", value |-> value,
     collection |-> collection, description |-> Undefined]

LookupPool ==
    {LookupToken("primary", "primary", "colors", "#111"),
     LookupToken("brand.primary", "primary", "colors", "#222"),
     LookupToken("brand-primary", "brand-primary", "flat", "#333"),
     LookupToken("colors.primary", "primary", "semantic", "#444"),
     LookupToken("brand_primary", "brand_primary", "flat", "#555")}

\* lists of distinct tokens
LookupLists(k) ==
    {toks \in [1..k -> LookupPool] : \A i, j \in 1..k : toks[i] = toks[j] => i = j}

LookupReferences == {t.path : t \in LookupPool} \cup {"brand/primary"}

LookupStart ==
    /\ \E k \in 1..MaxLookupTokens :
         \E toks \in LookupLists(k), reference \in LookupReferences :
            call = [fn |-> "resolveAliases", reference |-> reference, tokens |-> toks]
    /\ returned = NotReturned

CallResolveAliasesOf ==
    /\ call.fn = "resolveAliases"
    /\ ~returned.done
    /\ returned' = Return(resolveAliases("{" \o call.reference \o "}", call.tokens))
    /\ UNCHANGED <<call, notCallVars>>

NextLookup == CallResolveAliasesOf

LookupDone == returned.done /\ call.fn = "resolveAliases"

\* C22: when the reference is the path of a token of the list, resolveAliases
\* puts the value of that token in its place, whatever names, collection.name
\* keys and dashed or underscored paths of other tokens are the same string.
C22_ExactPathComesFirst ==
    LookupDone =>
        \A n \in 1..Len(call.tokens) :
            call.tokens[n].path = call.reference
                => /\ returned.value.resolved = call.tokens[n].value
                   /\ ~returned.value.hasUnresolved

\* what the code does: the value is that of the last token of the list that
\* has the reference among the keys createTokenMap sets for it
C22_LastTokenWithTheKeyWins ==
    LookupDone =>
        \A n \in 1..Len(call.tokens) :
            (/\ call.reference \in tokenKeys(call.tokens[n])
             /\ \A k \in (n + 1)..Len(call.tokens) :
                   call.reference \notin tokenKeys(call.tokens[k]))
                => /\ returned.value.resolved = call.tokens[n].value
                   /\ ~returned.value.hasUnresolved

(***************************************************************************)
(* The token records of a call.  The records of context.flatTokens are the *)
(* objects preprocessing pushed: a later stage that writes a field of one  *)
(* writes it in the record preprocessing produced.                         *)
(***************************************************************************)
\* the stage was started by the call and its handler did not throw
StageCompleted(c, name) ==
    /\ \E i \in 1..Len(execs[c].started) : execs[c].started[i] = name
    /\ ~StageFailed(c, name)

\* C23: the token records preprocessing produced have the same fields and
\* values once the alias-resolution and type-processing stages have run.
C23_StagesLeaveTheRecordsAlone ==
    \A c \in Calls :
        (/\ Settled(c)
         /\ StageCompleted(c, "alias-resolution")
         /\ StageCompleted(c, "type-processing"))
            => execs[c].ctx.flatTokens = flattenTokenStructure(execs[c].ctx.processedData)

\* what does hold: the records are as preprocessing made them when the call
\* was made with resolveAliases off
C23_RecordsStayWithoutAliasResolution ==
    \A c \in Calls :
        (/\ Settled(c)
         /\ StageCompleted(c, "type-processing")
         /\ ~execs[c].ctx.options.resolveAliases)
            => execs[c].ctx.flatTokens = flattenTokenStructure(execs[c].ctx.processedData)

(***************************************************************************)
(* The order in which the handlers of a call start.                        *)
(***************************************************************************)
\* the stages whose failure ends the call
CriticalStages == {"validation", "format-detection", "preprocessing"}

\* C26: the handlers of a call start in the order of pipelineStages, each at
\* most once, and none starts after the handler of validation,
\* format-detection or preprocessing threw.
C26_StagesStartInOrder ==
    \A c \in Calls :
        /\ Len(execs[c].started) <= Len(StageNames)
        /\ \A i \in 1..Len(execs[c].started) : execs[c].started[i] = StageNames[i]
        /\ \A i \in 1..Len(execs[c].started) :
              (execs[c].started[i] \in CriticalStages /\ StageFailed(c, execs[c].started[i]))
                  => i = Len(execs[c].started)

\* the handler of preprocessing threw in a call that has settled: it was the
\* third and last to start; and another call ran all seven
C26_Witness ==
    /\ \E c \in Calls :
          /\ Settled(c)
          /\ StageFailed(c, "preprocessing")
          /\ execs[c].started = SubSeq(StageNames, 1, 3)
    /\ \E c \in Calls : Settled(c) /\ execs[c].started = StageNames

(***************************************************************************)
(* exportForFigma of the store.  The call reads the state, sets            *)
(* isExporting and awaits transformTokensForFigma; the actions of the      *)
(* store called before the promise settles run in between.  One slot of    *)
(* exports holds a call in flight or the call that settled last.           *)
(***************************************************************************)
\* exportForFigma up to its await: set({ isExporting: true })
exportForFigmaBegins(state) == [state EXCEPT !.isExporting = TRUE]

\* the result as the store keeps it
FigmaResult(result) ==
    [present |-> TRUE, success |-> result.success, collections |-> result.collections,
     totalVariables |-> result.totalVariables, totalModes |-> result.totalModes,
     errors |-> result.errors]

\* exportForFigma after its await (transformTokensForFigma catches what it
\* throws and resolves with success: false, so the catch block is not entered)
exportForFigmaSettles(state, result, config) ==
    [state EXCEPT !.figmaExportResult = FigmaResult(result),
                  !.figmaCollections = result.collections,
                  !.lastExportConfig = config,
                  !.isExporting = FALSE]

\* the call made with the tokens and the config of slot c
ResultOf(c) == transformTokensForFigma(exports[c].tokens, exports[c].config)

\* the documents loaded and the configs passed while calls are in flight
ExportDocs == {BrandDoc, TypeDoc, JNull}

ExportConfigs == {config \in FigmaConfigs : config.collections = <<>>}

LoadFromJSONWhileExporting ==
    /\ \E d \in ExportDocs :
         /\ Len(ParsedTokens[d]) <= MaxStoreTokens
         /\ store' = loadFromJSON(store, d)
         /\ storeLast' = [op |-> "loadFromJSON", doc |-> d]
    /\ UNCHANGED <<exports, notStoreVars>>

ExportForFigma ==
    \E c \in ExportCalls, config \in ExportConfigs :
        /\ exports[c].pc = "idle"
        /\ \A b \in 1..(c - 1) : exports[b].pc # "idle"
        /\ exports' = [exports EXCEPT ![c] = [pc |-> "flight", tokens |-> store.tokens,
                                              config |-> config]]
        /\ store' = exportForFigmaBegins(store)
        /\ storeLast' = [storeLast EXCEPT !.op = "exportForFigma begins"]
        /\ UNCHANGED notStoreVars

SettleExportForFigma ==
    \E c \in ExportCalls :
        /\ exports[c].pc = "flight"
        /\ store' = exportForFigmaSettles(store, ResultOf(c), exports[c].config)
        /\ exports' = [b \in ExportCalls |->
                          IF b = c THEN [exports[c] EXCEPT !.pc = "settled"]
                          ELSE IF exports[b].pc = "settled" THEN NotExporting
                          ELSE exports[b]]
        /\ storeLast' = [storeLast EXCEPT !.op = "exportForFigma"]
        /\ UNCHANGED notStoreVars

NextStoreExports ==
    \/ LoadFromJSONWhileExporting
    \/ ClearTokens
    \/ ExportToW3C
    \/ ExportForFigma
    \/ SettleExportForFigma

InFlightExports == {c \in ExportCalls : exports[c].pc = "flight"}

\* C27: isExporting is true whenever a call of exportForFigma or exportToW3C
\* has started and not settled, and false once every call has settled.
C27_IsExportingWhileInFlight == store.isExporting <=> InFlightExports # {}

\* what does hold: isExporting is true only while a call is in flight
C27_IsExportingOnlyWhileInFlight == store.isExporting => InFlightExports # {}

\* C28: when the tokens were cleared or replaced while a call of
\* exportForFigma was in flight, the store does not hold, once the call has
\* settled, the result computed from the tokens the call had read.
C28_NoResultOfReplacedTokens ==
    \A c \in ExportCalls :
        (/\ storeLast.op = "exportForFigma"
         /\ exports[c].pc = "settled"
         /\ exports[c].tokens # store.tokens
         /\ ResultOf(c).collections
              # transformTokensForFigma(store.tokens, exports[c].config).collections)
            => /\ store.figmaCollections # ResultOf(c).collections
               /\ store.figmaExportResult # FigmaResult(ResultOf(c))

\* what does hold: the result is that of the tokens of the store when they
\* are the tokens the call had read
C28_ResultOfTheTokensRead ==
    \A c \in ExportCalls :
        (/\ storeLast.op = "exportForFigma"
         /\ exports[c].pc = "settled"
         /\ exports[c].tokens = store.tokens)
            => store.figmaCollections
                 = transformTokensForFigma(store.tokens, exports[c].config).collections

(***************************************************************************)
(* buildW3CCompliantJSON over lists of tokens with paths that share their  *)
(* first segments, in every order.                                         *)
(***************************************************************************)
MaxBuildTokens == 3

BuildPaths == {"a", "a.b", "a.c", "x/a"}

BuildToken(path, collection) ==
    StoreToken(path, path, "COLOR", "#" \o path, collection, JUndef)

BuildPool == {BuildToken(path, collection) : path \in BuildPaths, collection \in {"brand", ""}}

BuildLists(k) == {toks \in [1..k -> BuildPool] : UniquePaths(toks)}

BuildStart ==
    /\ \E k \in 1..MaxBuildTokens :
         \E toks \in BuildLists(k) : call = [fn |-> "buildW3CCompliantJSON", tokens |-> toks]
    /\ returned = NotReturned

CallBuildW3CCompliantJSON ==
    /\ call.fn = "buildW3CCompliantJSON"
    /\ ~returned.done
    /\ returned' = Return(buildW3CCompliantJSON(call.tokens))
    /\ UNCHANGED <<call, notCallVars>>

NextBuild == CallBuildW3CCompliantJSON

\* obj[segs[1]][segs[2]]...
RECURSIVE AtPath(_, _)
AtPath(obj, segs) ==
    IF Len(segs) = 0 THEN obj
    ELSE IF ~IsObject(obj) THEN JUndef
    ELSE AtPath(Prop(obj, segs[1]), Tail(segs))

\* the key of the collection of a token and the keys below it
PlaceOf(token) ==
    <<IF token.collection = "" THEN "Design Tokens" ELSE token.collection>>
    \o SegmentsOrUndefined(parseTokenPath(token.path))

\* the token is in the output at its place with its $value
Exported(w3cJson, token) ==
    /\ IsObject(AtPath(w3cJson, PlaceOf(token)))
    /\ Prop(AtPath(w3cJson, PlaceOf(token)), "$value") = JStr(token.value)

IsPrefixOf(a, b) == Len(a) <= Len(b) /\ SubSeq(b, 1, Len(a)) = a

BuildDone == returned.done /\ call.fn = "buildW3CCompliantJSON"

\* C29: for a list whose paths are unique within each collection, in any
\* order, every token of the list is in the output of buildW3CCompliantJSON at
\* [collection][path segments...] with its $value, also when the path of one
\* token is a prefix of the path of another.
C29_NoTokenIsLost ==
    (BuildDone /\ UniquePaths(call.tokens))
        => \A n \in 1..Len(call.tokens) : Exported(returned.value, call.tokens[n])

\* what does hold: every token is in the output when the place of no token
\* of the list is the place of another or leads to it
C29_NoTokenIsLostAmongSeparatePlaces ==
    (/\ BuildDone
     /\ \A i, j \in 1..Len(call.tokens) :
           IsPrefixOf(PlaceOf(call.tokens[i]), PlaceOf(call.tokens[j])) => i = j)
        => \A n \in 1..Len(call.tokens) : Exported(returned.value, call.tokens[n])

(***************************************************************************)
(* FigmaExportEngine.resolveAliases and resolveAlias, step by step.        *)
(* resolution holds the context (the tokens of tokenMap, resolvedValues,   *)
(* resolutionStack), the variable the loop is at, the calls of             *)
(* resolveAlias that wait for their nested call, and what the call made    *)
(* last returned.  The code runs without a pause from the first variable   *)
(* to the last.                                                            *)
(***************************************************************************)
MaxResolveTokens == 3

ResolveToken(path, value) == StoreToken(path, path, "COLOR", value, "brand", JUndef)

ResolvePool ==
    {ResolveToken("p", "#fff"),
     ResolveToken("l", "{p}"),
     ResolveToken("a", "{b}"),
     ResolveToken("b", "{a}"),
     ResolveToken("c", "{a}"),
     ResolveToken("s", "{s}"),
     ResolveToken("m", "{none}")}

\* the lists of tokens of the pool, none twice (two tokens of the pool with
\* one path are one token)
ResolveLists(k) ==
    {toks \in [1..k -> ResolvePool] : \A i, j \in 1..k : toks[i] = toks[j] => i = j}

\* transformCollection: the variables made from the tokens
VariablesOf(toks) ==
    [n \in 1..Len(toks) |->
        transformTokenToFigmaVariable(toks[n], "brand", "collection-brand", n)]

NoResolution ==
    [pc |-> "idle", tokens |-> <<>>, figmaVariables |-> <<>>, n |-> 0,
     aliasPath |-> Undefined, frames |-> <<>>, result |-> Undefined,
     resolutionStack |-> <<>>, resolvedValues |-> <<>>]

ResolveIdle == resolution = NoResolution

\* resolveAliases(figmaVariables, tokens) down to the head of its loop
ResolveStart ==
    \E k \in 1..MaxResolveTokens :
        \E toks \in ResolveLists(k) :
            resolution = [NoResolution EXCEPT !.pc = "loop", !.tokens = toks,
                                              !.figmaVariables = VariablesOf(toks), !.n = 1]

\* a resolveAlias without its finally block
resolveAliasNoFinally(resolutionStack) == resolutionStack

\* finally { context.resolutionStack.pop() }
resolveAliasFinally(resolutionStack) == SubSeq(resolutionStack, 1, Len(resolutionStack) - 1)

\* the loop of resolveAliases at variable n: it calls resolveAlias for an alias
\* variable with a target, and goes on to the next variable otherwise
ResolveAliasesLoop ==
    /\ resolution.pc = "loop"
    /\ resolution' =
         IF resolution.n > Len(resolution.figmaVariables)
         THEN [resolution EXCEPT !.pc = "done"]
         ELSE IF /\ resolution.figmaVariables[resolution.n].isAlias
                 /\ resolution.figmaVariables[resolution.n].aliasTarget \notin {Undefined, ""}
         THEN [resolution EXCEPT !.pc = "enter",
                                 !.aliasPath = resolution.figmaVariables[resolution.n].aliasTarget]
         ELSE [resolution EXCEPT !.n = @ + 1]
    /\ UNCHANGED notResolveVars

\* resolveAlias(aliasPath, context) from its first line to its nested call or
\* to its return
EnteredResolveAlias(r) ==
    IF \E i \in 1..Len(r.resolutionStack) : r.resolutionStack[i] = r.aliasPath
    THEN [r EXCEPT !.pc = "return", !.result = Undefined]
    ELSE IF TokenWithPath(r.tokens, r.aliasPath) = 0
    THEN [r EXCEPT !.pc = "return", !.result = Undefined,
                   !.resolutionStack = resolveAliasFinally(Append(@, r.aliasPath))]
    ELSE IF /\ isAliasToken(r.tokens[TokenWithPath(r.tokens, r.aliasPath)].value)
            /\ figmaExtractAliasTarget(r.tokens[TokenWithPath(r.tokens, r.aliasPath)].value)
                 # Undefined
    THEN [r EXCEPT !.pc = "enter",
                   !.resolutionStack = Append(@, r.aliasPath),
                   !.frames = Append(@, r.aliasPath),
                   !.aliasPath = figmaExtractAliasTarget(
                                    r.tokens[TokenWithPath(r.tokens, r.aliasPath)].value)]
    ELSE [r EXCEPT !.pc = "return",
                   !.result = r.tokens[TokenWithPath(r.tokens, r.aliasPath)].value,
                   !.resolutionStack = resolveAliasFinally(Append(@, r.aliasPath))]

EnterResolveAlias ==
    /\ resolution.pc = "enter"
    /\ resolution' = EnteredResolveAlias(resolution)
    /\ UNCHANGED notResolveVars

\* return this.resolveAlias(nestedTarget, context) of a call that waited: its
\* finally block runs and it returns what the nested call returned
ReturnResolveAlias ==
    /\ resolution.pc = "return"
    /\ Len(resolution.frames) > 0
    /\ resolution' = [resolution EXCEPT
                         !.frames = SubSeq(@, 1, Len(@) - 1),
                         !.resolutionStack = resolveAliasFinally(@)]
    /\ UNCHANGED notResolveVars

\* the loop of resolveAliases gets the value of its call of resolveAlias
ReceiveResolvedValue ==
    /\ resolution.pc = "return"
    /\ Len(resolution.frames) = 0
    /\ resolution' = [resolution EXCEPT
                         !.pc = "loop",
                         !.n = @ + 1,
                         !.resolvedValues =
                             IF resolution.result # Undefined
                             THEN Append(@, <<resolution.figmaVariables[resolution.n].id,
                                              resolution.result>>)
                             ELSE @]
    /\ UNCHANGED notResolveVars

NextResolve ==
    \/ ResolveAliasesLoop
    \/ EnterResolveAlias
    \/ ReturnResolveAlias
    \/ ReceiveResolvedValue

\* following the references from path leads, in at most fuel tokens, to a
\* token whose value is no reference: the chain has no missing token and no cycle
RECURSIVE ReachesValue(_, _, _)
ReachesValue(path, toks, fuel) ==
    IF fuel = 0 \/ TokenWithPath(toks, path) = 0 THEN FALSE
    ELSE IF /\ isAliasToken(toks[TokenWithPath(toks, path)].value)
            /\ figmaExtractAliasTarget(toks[TokenWithPath(toks, path)].value) # Undefined
    THEN ReachesValue(figmaExtractAliasTarget(toks[TokenWithPath(toks, path)].value),
                      toks, fuel - 1)
    ELSE TRUE

\* the call of resolveAlias the loop made has returned to the loop
TopLevelReturned == resolution.pc = "return" /\ Len(resolution.frames) = 0

\* the target of the variable the loop is at
TargetAt(n) == resolution.figmaVariables[n].aliasTarget

ResolveAliasReturnsClean ==
    /\ resolution.pc \in {"loop", "done"} => resolution.resolutionStack = <<>>
    /\ TopLevelReturned =>
         /\ resolution.resolutionStack = <<>>
         /\ ~ReachesValue(TargetAt(resolution.n), resolution.tokens,
                           Len(resolution.tokens) + 1)
              => resolution.result = Undefined
         /\ resolution.result = resolveAlias(TargetAt(resolution.n), resolution.tokens, <<>>)

\* C30: resolveAlias terminates for every token set, with cycles of aliases
\* and references to missing tokens; it returns undefined for a cyclic or a
\* missing reference; the resolution stack is empty after each top-level
\* call, so that what a call returns is what it returns in a fresh context,
\* whatever cycle was met for the variable before.
C30_ResolveAliasTerminatesAndCleansUp ==
    /\ []ResolveAliasReturnsClean
    /\ <>(resolution.pc = "done")

\* a call of resolveAlias has returned a value to the loop after the call
\* for a variable before it met a cycle
C30_Witness ==
    /\ TopLevelReturned
    /\ resolution.result # Undefined
    /\ \E k \in 1..(resolution.n - 1) :
          /\ resolution.figmaVariables[k].isAlias
          /\ TokenWithPath(resolution.tokens, TargetAt(k)) # 0
          /\ ~ReachesValue(TargetAt(k), resolution.tokens, Len(resolution.tokens) + 1)

(***************************************************************************)
(* Specifications: one per part, the other parts idle.                     *)
(***************************************************************************)
InitAlias == AliasStart /\ DetectIdle /\ PipeIdle /\ ExportIdle /\ StoreIdle /\ CallIdle /\ ResolveIdle
SpecAlias == InitAlias /\ [][NextAlias]_vars

InitDetect == DetectStart /\ AliasIdle /\ PipeIdle /\ ExportIdle /\ StoreIdle /\ CallIdle /\ ResolveIdle
SpecDetect == InitDetect /\ [][NextDetect]_vars

InitPipeline == PipeStart /\ AliasIdle /\ DetectIdle /\ ExportIdle /\ StoreIdle /\ CallIdle /\ ResolveIdle
SpecPipeline == InitPipeline /\ [][NextPipeline]_vars

InitOverlap == OverlapStart /\ AliasIdle /\ DetectIdle /\ ExportIdle /\ StoreIdle /\ CallIdle /\ ResolveIdle
SpecOverlap == InitOverlap /\ [][NextPipeline]_vars

InitExport == ExportStart /\ AliasIdle /\ DetectIdle /\ PipeIdle /\ StoreIdle /\ CallIdle /\ ResolveIdle
SpecExport == InitExport /\ [][NextExport]_vars

InitStore == StoreStart /\ AliasIdle /\ DetectIdle /\ PipeIdle /\ ExportIdle /\ CallIdle /\ ResolveIdle
SpecStore == InitStore /\ [][NextStore]_vars

OthersIdle == AliasIdle /\ DetectIdle /\ PipeIdle /\ ExportIdle /\ StoreIdle /\ ResolveIdle

InitScope == ScopeStart /\ OthersIdle
SpecScope == InitScope /\ [][NextScope]_vars

InitModes == ModesStart /\ OthersIdle
SpecModes == InitModes /\ [][NextModes]_vars

InitLoaded == LoadedStart /\ DetectIdle /\ PipeIdle /\ ExportIdle /\ StoreIdle /\ CallIdle /\ ResolveIdle
SpecLoaded == InitLoaded /\ [][NextLoaded]_vars

InitStudio == StudioStart /\ OthersIdle
SpecStudio == InitStudio /\ [][NextStudio]_vars

InitTypeMap == TypeMapStart /\ OthersIdle
SpecTypeMap == InitTypeMap /\ [][NextTypeMap]_vars

InitLookup == LookupStart /\ OthersIdle
SpecLookup == InitLookup /\ [][NextLookup]_vars

InitStoreExports == InitStore
SpecStoreExports == InitStoreExports /\ [][NextStoreExports]_vars

InitBuild == BuildStart /\ OthersIdle
SpecBuild == InitBuild /\ [][NextBuild]_vars

InitResolve ==
    ResolveStart /\ AliasIdle /\ DetectIdle /\ PipeIdle /\ ExportIdle /\ StoreIdle /\ CallIdle
SpecResolve == InitResolve /\ [][NextResolve]_vars /\ WF_vars(NextResolve)

InitFigma == FigmaStart /\ OthersIdle
SpecFigma == InitFigma /\ [][NextFigma]_vars

====
